---- MODULE Spec2Model ----
(***************************************************************************)
(* Sennet agent: daemon start-up (main.rs), the heartbeat task            *)
(* (heartbeat.rs), the control-plane client (client.rs), the              *)
(* configuration store (config.rs) and the self-updater (upgrade.rs).     *)
(*                                                                         *)
(* Durations are in milliseconds.  Strings that the code inspects by      *)
(* prefix (api_key, server_url) are sequences of one-character strings.   *)
(***************************************************************************)
EXTENDS Integers, Sequences, FiniteSets, TLC

\* ------------------------------------------------------------------------
\* Bounds of the model
\* ------------------------------------------------------------------------
MaxTicks == 2          \* heartbeat attempts started per process image
MaxEdits == 1          \* edits of the config file while the agent runs

\* ------------------------------------------------------------------------
\* Program constants
\* ------------------------------------------------------------------------
InitialIntervalMs == 1000        \* ExponentialBackoff.initial_interval
MaxIntervalMs == 60000           \* ExponentialBackoff.max_interval
MaxElapsedMs == 300000           \* ExponentialBackoff.max_elapsed_time
default_heartbeat_interval == 30 \* config.rs default_heartbeat_interval()

\* Option<T>: None is the empty sequence, Some(x) the sequence of x alone
None == <<>>
Some(x) == <<x>>
IsSome(o) == Len(o) = 1
Unwrap(o) == o[1]

Missing == "<missing>"           \* a field that is absent from a JSON object

\* ------------------------------------------------------------------------
\* config.rs
\* ------------------------------------------------------------------------
StartsWith(s, p) == Len(s) >= Len(p) /\ SubSeq(s, 1, Len(p)) = p

SkPrefix == <<"s", "k", "_">>
HttpPrefix == <<"h", "t", "t", "p", ":", "/", "/">>
HttpsPrefix == <<"h", "t", "t", "p", "s", ":", "/", "/">>

\* Config::validate: Ok(()) is TRUE, any bail! is FALSE
validate(cfg) ==
    /\ cfg.api_key # <<>>
    /\ StartsWith(cfg.api_key, SkPrefix)
    /\ cfg.server_url # <<>>
    /\ (StartsWith(cfg.server_url, HttpPrefix) \/ StartsWith(cfg.server_url, HttpsPrefix))

\* fn default_log_level()
default_log_level == "info"

\* What serde_yaml::from_str yields for a config file: a parse error, or a
\* Config whose missing fields were defaulted
ConfigFileWith(key, url, level, iface, secs) ==
    [ parse |-> "ok", api_key |-> key, server_url |-> url, log_level |-> level,
      interface |-> iface, heartbeat_interval_secs |-> secs ]
\* a file that sets neither log_level nor interface
ConfigFile(key, url, secs) == ConfigFileWith(key, url, default_log_level, None, secs)

\* The config files the model feeds in: two valid ones that differ in the
\* interval, one with a bad key, one with a bad url, and one that is not YAML
GoodKey == SkPrefix \o <<"1">>
GoodUrl == HttpsPrefix \o <<"h">>
ConfigFiles ==
    { [parse |-> "err"],
      ConfigFile(GoodKey, GoodUrl, default_heartbeat_interval),
      ConfigFile(GoodKey, GoodUrl, 1),
      ConfigFile(<<"k", "e", "y">>, GoodUrl, default_heartbeat_interval),
      ConfigFile(GoodKey, <<"f", "t", "p", ":", "/", "/", "h">>, default_heartbeat_interval) }
\* a found config file, or no file at any of config_paths()
ConfigInputs == ConfigFiles \cup { [parse |-> "absent"] }

\* The environment of the daemon: SENNET_API_KEY, SENNET_SERVER_URL set or
\* unset (None), the other SENNET_* variables unset
Envs == [ api_key : {None, Some(GoodKey)}, server_url : {None, Some(GoodUrl)},
          log_level : {None}, interface : {None}, heartbeat_interval : {None} ]

\* one decimal digit of str::parse::<u64>, -1 for any other character
DigitValue(c) ==
    CASE c = "0" -> 0 [] c = "1" -> 1 [] c = "2" -> 2 [] c = "3" -> 3 [] c = "4" -> 4
      [] c = "5" -> 5 [] c = "6" -> 6 [] c = "7" -> 7 [] c = "8" -> 8 [] c = "9" -> 9
      [] OTHER -> -1

RECURSIVE ParseDigits(_, _)
ParseDigits(s, acc) ==
    IF s = <<>> THEN acc ELSE ParseDigits(Tail(s), 10 * acc + DigitValue(Head(s)))

\* s.parse::<u64>().ok(): Some(n) for a non-empty string of decimal digits
\* (a value of 2^64 or more is an Err too; the strings fed in here have at
\* most two characters)
parse_u64(s) ==
    IF s = <<>> \/ \E i \in 1..Len(s) : DigitValue(s[i]) < 0 THEN None
    ELSE Some(ParseDigits(s, 0))

\* the overrides of load_from_file, in the order of the code
ApplyEnv(f, e) ==
    [ api_key |-> IF IsSome(e.api_key) THEN Unwrap(e.api_key) ELSE f.api_key,
      server_url |-> IF IsSome(e.server_url) THEN Unwrap(e.server_url) ELSE f.server_url,
      log_level |-> IF IsSome(e.log_level) THEN Unwrap(e.log_level) ELSE f.log_level,
      interface |-> IF IsSome(e.interface) THEN Some(Unwrap(e.interface)) ELSE f.interface,
      heartbeat_interval_secs |-> f.heartbeat_interval_secs,
      config_path |-> "file" ]

\* Mutant of load_from_file: the file's values are validated, then overridden
load_from_file_validates_first(f, e) ==
    IF f.parse # "ok" THEN None
    ELSE IF validate(f) THEN Some(ApplyEnv(f, e)) ELSE None

\* Config::load_from_file on a file content f under environment e:
\* Result<Config> as Option (None is Err)
load_from_file(f, e) ==
    IF f.parse # "ok" THEN None
    ELSE LET merged == ApplyEnv(f, e)
         IN IF validate(merged) THEN Some(merged) ELSE None

\* Config::load: the environment short-circuits when both variables are set,
\* otherwise the first existing file is loaded, and bail! when there is none
load(f, e) ==
    IF IsSome(e.api_key) /\ IsSome(e.server_url)
    THEN LET secs == IF IsSome(e.heartbeat_interval)
                     THEN parse_u64(Unwrap(e.heartbeat_interval)) ELSE None
             c == [ api_key |-> Unwrap(e.api_key), server_url |-> Unwrap(e.server_url),
                    log_level |-> IF IsSome(e.log_level) THEN Unwrap(e.log_level)
                                  ELSE default_log_level,
                    interface |-> e.interface,
                    heartbeat_interval_secs |-> IF IsSome(secs) THEN Unwrap(secs)
                                                ELSE default_heartbeat_interval,
                    config_path |-> "env" ]
         IN IF validate(c) THEN Some(c) ELSE None
    ELSE IF f.parse = "absent" THEN None
    ELSE load_from_file(f, e)

\* ------------------------------------------------------------------------
\* client.rs
\* ------------------------------------------------------------------------
Command == {"CommandUnspecified", "CommandNoop", "CommandUpgrade", "CommandReconfigure"}

\* #[serde(rename_all = "SCREAMING_SNAKE_CASE")]: the wire name of a variant
WireName(variant) ==
    CASE variant = "CommandUnspecified" -> "COMMAND_UNSPECIFIED"
      [] variant = "CommandNoop" -> "COMMAND_NOOP"
      [] variant = "CommandUpgrade" -> "COMMAND_UPGRADE"
      [] variant = "CommandReconfigure" -> "COMMAND_RECONFIGURE"

\* impl Default for Command
DefaultCommand == "CommandNoop"

\* The derived Deserialize of Command on a JSON string: the variant of that
\* wire name, or an error ("unknown variant") when there is none
DeserializeCommand(s) ==
    IF \E v \in Command : WireName(v) = s
    THEN [ok |-> TRUE, value |-> CHOOSE v \in Command : WireName(v) = s]
    ELSE [ok |-> FALSE, value |-> DefaultCommand]

\* What the server may answer to one POST
KnownWireNames == { WireName(v) : v \in Command }
WireCommands == KnownWireNames \cup {"COMMAND_RESTART", Missing}
WireVersions == {Missing, "2.0.0"}
JsonBody(c, v) == [ kind |-> "json", command |-> c, latestVersion |-> v ]
JsonBodies ==
    { JsonBody(c, v) : c \in WireCommands, v \in WireVersions }
        \cup { JsonBody("COMMAND_UPGRADE", "") }
\* a transport error (network failure, non-2xx status), a body that is not
\* JSON, or a JSON object
Replies == { [kind |-> "transport_error"], [kind |-> "not_json"] } \cup JsonBodies

\* The derived Deserialize of HeartbeatResponse (into_json): #[serde(default)]
\* fills a missing field, a present field is deserialized and its error is
\* the error of the whole response
DeserializeResponse(body) ==
    IF body.kind # "json" THEN [ok |-> FALSE]
    ELSE LET cmd == IF body.command = Missing
                    THEN [ok |-> TRUE, value |-> DefaultCommand]
                    ELSE DeserializeCommand(body.command)
         IN IF ~cmd.ok THEN [ok |-> FALSE]
            ELSE [ ok |-> TRUE, command |-> cmd.value,
                   latest_version |-> IF body.latestVersion = Missing THEN ""
                                      ELSE body.latestVersion ]

\* SentinelClient::heartbeat on the server's reply: send_json()? then
\* into_json()?; err tells which of the two failed
heartbeat(reply) ==
    IF reply.kind = "transport_error" THEN [ok |-> FALSE, err |-> "send"]
    ELSE LET resp == DeserializeResponse(reply)
         IN IF resp.ok THEN resp ELSE [ok |-> FALSE, err |-> "parse"]

\* ------------------------------------------------------------------------
\* upgrade.rs
\* ------------------------------------------------------------------------
\* A version string is the sequence of its dot-separated components; a
\* component is a number, or -1 for text that does not parse as u32
parse_version(v) == SelectSeq(v, LAMBDA c : c >= 0)

RECURSIVE CompareFrom(_, _, _)
\* the zip loop of needs_upgrade from index i on, then the length test
CompareFrom(curr, lat, i) ==
    IF i > Len(curr) \/ i > Len(lat) THEN Len(lat) > Len(curr)
    ELSE IF curr[i] < lat[i] THEN TRUE
    ELSE IF curr[i] > lat[i] THEN FALSE
    ELSE CompareFrom(curr, lat, i + 1)

\* Mutant of needs_upgrade: the final length test is left out
needs_upgrade_no_suffix(current, latest) ==
    LET curr == parse_version(current)
        lat == parse_version(latest)
    IN /\ CompareFrom(curr, lat, 1)
       /\ \E i \in 1..Len(curr) : i <= Len(lat) /\ curr[i] # lat[i]

needs_upgrade(current, latest) ==
    CompareFrom(parse_version(current), parse_version(latest), 1)

CURRENT_VERSION == <<1, 0, 0>>

\* What the release server may publish as latest version (None: the fetch fails)
LatestVersions == { None, Some(<<1, 0, 0>>), Some(<<2, 0, 0>>) }
\* downloaded file (None: download fails) and published checksum (None: fetch
\* fails); a file is named by its SHA-256
Downloads == { None, Some("sha_new"), Some("sha_bad") }
Checksums == { None, Some("sha_new") }

\* Updater::upgrade: ok is Ok(()) against Err; replaced tells whether
\* atomic_replace renamed the downloaded file over the binary
upgrade(latest, file, expected, rename_ok) ==
    IF latest = None THEN [ok |-> FALSE, replaced |-> FALSE]
    ELSE IF ~needs_upgrade(CURRENT_VERSION, Unwrap(latest))
         THEN [ok |-> TRUE, replaced |-> FALSE]
    ELSE IF file = None THEN [ok |-> FALSE, replaced |-> FALSE]
    ELSE IF expected = None THEN [ok |-> FALSE, replaced |-> FALSE]
    ELSE IF file # expected THEN [ok |-> FALSE, replaced |-> FALSE]
    ELSE IF ~rename_ok THEN [ok |-> FALSE, replaced |-> FALSE]
    ELSE [ok |-> TRUE, replaced |-> TRUE]

\* ------------------------------------------------------------------------
\* heartbeat.rs: the ExponentialBackoff of send_heartbeat
\* ------------------------------------------------------------------------
\* randomization_factor 0.5 and multiplier 1.5 come from ..Default::default()
\* The points of the randomised interval [cur - cur/2, cur + cur/2] that
\* rand::random may select
RandomizedInterval(cur, r) ==
    CASE r = "min" -> cur - (cur \div 2)
      [] r = "mid" -> cur
      [] r = "max" -> cur + (cur \div 2)

\* increment_current_interval: times 1.5, capped at max_interval
IncrementCurrentInterval(cur) ==
    IF 3 * cur >= 2 * MaxIntervalMs THEN MaxIntervalMs ELSE (3 * cur) \div 2

\* next_backoff at elapsed time e with current interval cur and random point r:
\* None when the budget is spent or the delay would pass it, else the delay
next_backoff(cur, e, r) ==
    IF e > MaxElapsedMs THEN None
    ELSE IF e + RandomizedInterval(cur, r) <= MaxElapsedMs
         THEN Some(RandomizedInterval(cur, r))
         ELSE None

\* Duration::from_secs, in milliseconds
from_secs(secs) == secs * 1000


\* ------------------------------------------------------------------------
\* State
\* ------------------------------------------------------------------------
VARIABLES
    main_pc,          \* where main is
    config_file,      \* the config file on disk
    edits,            \* edits of the config file so far
    state_file,       \* {state_dir}/state.json: "absent", "corrupt" or "valid"
    config,           \* the Config main loaded
    startup_err,      \* the start-up step that returned Err, or "none"
    interface,        \* the discovered interface name ("" when discovery failed)
    ebpf,             \* result of EbpfManager::load_and_attach
    exit_code,        \* exit status of the process (-1 while it runs)
    hb_pc,            \* where the heartbeat task is
    aborted,          \* JoinHandle::abort was called on the heartbeat task
    abort_at,         \* "suspended" / "polling": what the task did when abort was called
    interval,         \* run's local `interval`
    ticks,            \* calls of send_heartbeat so far
    slept,            \* Option: the sleep run took right before this attempt
    rng,              \* points of the randomised interval rand::random may select
    rtts,             \* how long one POST may take before ureq returns
    current_interval, \* ExponentialBackoff.current_interval
    elapsed,          \* time since ExponentialBackoff.start_time
    delay,            \* the delay retry is sleeping
    reply,            \* Option: the server's reply to the last POST
    parse_failed,     \* a reply of this attempt failed to parse
    response,         \* the HeartbeatResponse send_heartbeat returned
    last_result,      \* "ok"/"err": what the last send_heartbeat returned
    act               \* what handle_command did with the last response

\* State of the telemetry plane (identity store, counters, probe loader); the
\* daemon above leaves it alone
VARIABLES
    id_file,          \* {state_dir}/state.json: its kind and the agent_id it holds
    id_fresh,         \* UUIDs Uuid::new_v4 handed out so far
    id_boots,         \* what each call of load_or_create returned, oldest first
    COUNTERS,         \* the per-CPU array: COUNTERS[slot + 1][cpu] is a PacketCounters
    cpu_busy,         \* per CPU: the packet process_packet is in the middle of
    pkts,             \* packets the classifiers have seen so far
    rd_pc,            \* where the reader of the pinned map is
    rd_copy,          \* per-CPU values the running lookup has copied so far
    rd_get,           \* per slot: Option of the values counters.get returned
    snaps,            \* the snapshots collect_metrics returned, oldest first
    fold_out,         \* what the two aggregators returned for COUNTERS
    ld_pc,            \* where the running load_and_attach is
    ld_caller,        \* who called it: "agent" (main) or "flows" (flows::run)
    elf,              \* header fields of the embedded probe object
    ld_invalid,       \* the "INVALID: ..." errors the header inspection logged
    bpf_load_called,  \* Bpf::load was called on the object
    pin_dir,          \* /sys/fs/bpf/sennet exists
    pins,             \* entries pinned under /sys/fs/bpf/sennet
    pin_errs,         \* pins for which map.pin returned Err in this run
    outcomes,         \* per probe: how far its load and attach went in this run
    handle,           \* the locals and the result of the running load_and_attach
    probe_outcomes,   \* how a probe's load and attach may end on this kernel
    held,             \* the processes that hold an EbpfManager (attached probes)
    probe_ops,        \* who loaded, attached or detached probes so far
    cmds              \* the subcommands that ran, with what they returned

\* State of the pure routines and of the command-line tools (config loading,
\* version comparison, request signing, flow filter), of the kernel probes and
\* their rings, and of the trace loop
VARIABLES
    cfg_file,         \* the config file Config::load / load_from_file reads
    cfg_env,          \* the SENNET_* environment variables (None = unset)
    cfg_out,          \* which entry point ran and the Result<Config> it returned
    ver_current,      \* needs_upgrade's `current`
    ver_latest,       \* needs_upgrade's `latest`
    ver_out,          \* Option: needs_upgrade(current, latest) and the reverse call
    sig_signer,       \* secret, timestamp and body given to sign_request
    sig_verifier,     \* secret, timestamp and body given to verify_signature
    sig_out,          \* Option: the signature and what verify_signature returned
    ff_flows,         \* the Vec<(FlowKey, FlowInfo)> read_flows returned
    ff_opts,          \* FlowsOptions.filter_pid and filter_comm
    ff_out,           \* Option: the flows left after the filters
    EVENTS,           \* the EVENTS ring: committed PacketEvents not yet consumed
    DROP_EVENTS,      \* the DROP_EVENTS ring: committed DropEvents not yet consumed
    tc_log,           \* per classifier run: the packet, what failed, the verdict
    kfree_log,        \* per kfree_skb run: the reason read and whether it committed
    FLOWS,            \* the FLOWS LRU map: FlowKey -> FlowInfo
    FLOW_EVENTS,      \* the FLOW_EVENTS ring: every FlowEvent committed, in order
    socks,            \* the TCP sockets of the host, by 5-tuple
    ktime,            \* bpf_ktime_get_ns
    flow_log,         \* per run of a TCP kprobe: the probe, the flow, what it committed
    tr_pc,            \* where run_linux_trace is
    tr_filter,        \* the TraceFilter parsed from the arguments
    drop_rb,          \* Option<RingBuf>: Some when the pinned ring was opened
    event_count,      \* run_linux_trace's event_count
    tr_elapsed,       \* start.elapsed(), in steps of the 50 ms sleep
    tr_printed        \* the events trace printed, oldest first

\* State of the self-updater's files and of its callers
VARIABLES
    up_pc,            \* per caller of the updater: where its check_upgrade / upgrade is
    up_fd,            \* per caller: Option of the inode its `file` handle is open on
    up_verified,      \* per caller: verify_checksum returned Ok(())
    up_replaced,      \* per caller: atomic_replace renamed the temp file over the binary
    up_restarted,     \* per caller: trigger_restart ran
    fs_temp,          \* Option: the inode that /tmp/sennet_new names
    fs_binary,        \* the inode that binary_path names
    inodes            \* the content of every inode, by inode number

\* State of the version the agent reports
VARIABLES
    rp_installed,     \* CARGO_PKG_VERSION of the binary at binary_path
    rp_running,       \* Option: CARGO_PKG_VERSION of the running process image
    rp_state,         \* Option: the version field of state.json (None: no file)
    rp_identity,      \* Option: state.version of the running IdentityManager
    rp_sent           \* the heartbeats sent: current_version and the sender's build

\* State of the Kubernetes manager, of the cluster it watches and of `sennet diagnose`
VARIABLES
    cl_pods,          \* the cluster's pods: per pod name, Option of its container ids
    pod_listed,       \* the pod watcher delivered its initial list
    pod_events,       \* the number of pod watcher events processed
    container_cache,  \* K8sManager.container_cache: container id -> Option of PodInfo
    cl_policies,      \* the cluster's NetworkPolicies: per (namespace, name), Option of its spec
    policy_listed,    \* the policy watcher delivered its initial list
    policy_events,    \* the number of policy watcher events processed
    policy_seen,      \* per (namespace, name): the last event that carried the policy
    policy_index,     \* K8sManager.policy_index: namespace -> Vec of NetworkPolicyInfo
    in_cluster,       \* K8sManager.in_cluster (service account token or kubeconfig found)
    sync_task,        \* the task start_sync spawned: "none", "spawned" or "watching"
    dg_pc,            \* where run_diagnose is
    dg_args,          \* << source pod, target pod >> given to `sennet diagnose`
    dg_status         \* Option: the connectivity status run_diagnose printed

podVars == << cl_pods, pod_listed, pod_events, container_cache >>
policyVars == << cl_policies, policy_listed, policy_events, policy_seen, policy_index >>
diagVars == << in_cluster, sync_task, dg_pc, dg_args, dg_status >>
k8sVars == << podVars, policyVars, diagVars >>
rpVars == << rp_installed, rp_running, rp_state, rp_identity, rp_sent >>
updVars == << up_pc, up_fd, up_verified, up_replaced, up_restarted, fs_temp, fs_binary,
              inodes >>
lateVars == << updVars, rpVars, k8sVars >>

cfgVars == << cfg_file, cfg_env, cfg_out >>
verVars == << ver_current, ver_latest, ver_out >>
sigVars == << sig_signer, sig_verifier, sig_out >>
ffVars == << ff_flows, ff_opts, ff_out >>
tcVars == << EVENTS, tc_log >>
dropVars == << DROP_EVENTS, kfree_log >>
flowVars == << FLOWS, FLOW_EVENTS, socks, ktime, flow_log >>
traceVars == << tr_pc, tr_filter, drop_rb, event_count, tr_elapsed, tr_printed >>
toolVars == << cfgVars, verVars, sigVars, ffVars, tcVars, dropVars, flowVars, traceVars >>

identVars == << id_file, id_fresh, id_boots >>
counterVars == << COUNTERS, cpu_busy, pkts, rd_pc, rd_copy, rd_get, snaps, fold_out >>
loaderVars == << ld_pc, ld_caller, elf, ld_invalid, bpf_load_called, pin_dir, pins,
                pin_errs, outcomes, handle, probe_outcomes, held, probe_ops, cmds >>
telemetryVars == << identVars, counterVars, loaderVars, toolVars, lateVars >>

daemonVars == << main_pc, config_file, edits, state_file, config, startup_err, interface,
           ebpf, exit_code, hb_pc, aborted, abort_at, interval, ticks, slept, rng,
           rtts, current_interval, elapsed, delay, reply, parse_failed, response,
           last_result, act >>

vars == << daemonVars, telemetryVars >>
exceptIdent == << daemonVars, counterVars, loaderVars, toolVars, lateVars >>
exceptCounters == << daemonVars, identVars, loaderVars, toolVars, lateVars >>
exceptLoader == << daemonVars, identVars, counterVars, toolVars, lateVars >>
baseVars == << daemonVars, identVars, counterVars, loaderVars >>
coreVars == << baseVars, lateVars >>
exceptConfig == << coreVars, verVars, sigVars, ffVars, tcVars, dropVars, flowVars, traceVars >>
exceptVersions == << coreVars, cfgVars, sigVars, ffVars, tcVars, dropVars, flowVars, traceVars >>
exceptCrypto == << coreVars, cfgVars, verVars, ffVars, tcVars, dropVars, flowVars, traceVars >>
exceptFilter == << coreVars, cfgVars, verVars, sigVars, tcVars, dropVars, flowVars, traceVars >>
exceptTc == << daemonVars, identVars, loaderVars, cfgVars, verVars, sigVars, ffVars,
               dropVars, flowVars, traceVars, lateVars >>
exceptDrop == << coreVars, cfgVars, verVars, sigVars, ffVars, tcVars, flowVars, traceVars >>
exceptFlows == << coreVars, cfgVars, verVars, sigVars, ffVars, tcVars, dropVars, traceVars >>
exceptTrace == << coreVars, cfgVars, verVars, sigVars, ffVars, tcVars, flowVars >>
exceptUpgrade == << baseVars, toolVars, rpVars, k8sVars >>
exceptReport == << baseVars, toolVars, updVars, k8sVars >>
exceptK8s == << baseVars, toolVars, updVars, rpVars >>

mainVars == << main_pc, config, startup_err, interface, ebpf, exit_code >>
diskVars == << config_file, edits, state_file >>
backoffVars == << current_interval, elapsed, delay >>
hbVars == << hb_pc, interval, ticks, slept, reply, parse_failed, response,
             last_result, act >>

NoConfig == [ api_key |-> <<>>, server_url |-> <<>>, log_level |-> "", interface |-> <<>>,
              heartbeat_interval_secs |-> 0,
              config_path |-> "unset" ]
NoResponse == [ ok |-> FALSE, err |-> "none" ]
NoAct == [ command |-> "none", latest_version |-> "", updater |-> "none",
           replaced |-> FALSE, exec |-> "none" ]

NoFile == [ kind |-> "absent", agent_id |-> 0 ]

\* The identity store before anything touched it
IdentIdle ==
    /\ id_file = NoFile
    /\ id_fresh = 0
    /\ id_boots = << >>

\* PacketCounters::default()
ZeroCounters == [ rx_packets |-> 0, rx_bytes |-> 0, tx_packets |-> 0, tx_bytes |-> 0,
                  drop_count |-> 0 ]
CPUs == {1, 2}         \* possible CPUs of the host
NCpus == Cardinality(CPUs)
\* The map as the kernel allocates it: two slots, every CPU's value zeroed
ZeroMap == [ slot \in 1..2 |-> [ cpu \in CPUs |-> ZeroCounters ] ]

ReaderIdle ==
    /\ rd_pc = "idle"
    /\ rd_copy = << >>
    /\ rd_get = << None, None >>

CountersIdle ==
    /\ COUNTERS = ZeroMap
    /\ cpu_busy = [ cpu \in CPUs |-> None ]
    /\ pkts = 0
    /\ ReaderIdle
    /\ snaps = << >>
    /\ fold_out = [ live |-> None, pinned |-> None ]

\* The programs load_and_attach attaches, in the order it goes through them
Probes == << "tc_ingress", "tc_egress", "kfree_skb", "nf_hook_slow", "tcp_connect",
             "inet_csk_accept", "tcp_close" >>
ProbeNames == { Probes[i] : i \in 1..Len(Probes) }
\* The embedded object of a release build: an ELF64 eBPF relocatable
GoodElf == [ len |-> 128, e_ehsize |-> 64, e_shentsize |-> 64, e_shoff |-> 64,
             e_machine |-> 247 ]
NoHandle == [ status |-> "none", cause |-> "none", drop_tracing_enabled |-> FALSE,
              nf_tracing_enabled |-> FALSE, flow_tracing_enabled |-> FALSE ]

\* No load_and_attach running, nothing pinned, nothing attached
LoaderIdle ==
    /\ ld_pc = "idle"
    /\ ld_caller = "none"
    /\ elf = GoodElf
    /\ ld_invalid = {}
    /\ bpf_load_called = FALSE
    /\ pin_dir = FALSE
    /\ pins = {}
    /\ pin_errs = {}
    /\ outcomes = [ p \in ProbeNames |-> "not_tried" ]
    /\ handle = NoHandle
    /\ probe_outcomes = {"attached"}
    /\ held = {}
    /\ probe_ops = {}
    /\ cmds = {}

\* Nothing of the tools ran
NoEnv == [ api_key |-> <<>>, server_url |-> <<>>, log_level |-> <<>>, interface |-> <<>>,
           heartbeat_interval |-> <<>> ]
ConfigIdle ==
    /\ cfg_file = [parse |-> "absent"]
    /\ cfg_env = NoEnv
    /\ cfg_out = [via |-> "none", result |-> <<>>]
VersionsIdle ==
    /\ ver_current = <<>>
    /\ ver_latest = <<>>
    /\ ver_out = <<>>
NoRequest == [ secret |-> <<>>, t |-> 0, body |-> <<>> ]
CryptoIdle ==
    /\ sig_signer = NoRequest
    /\ sig_verifier = NoRequest
    /\ sig_out = <<>>
FilterIdle ==
    /\ ff_flows = <<>>
    /\ ff_opts = [filter_pid |-> <<>>, filter_comm |-> <<>>]
    /\ ff_out = <<>>
TcIdle ==
    /\ EVENTS = <<>>
    /\ tc_log = <<>>
DropIdle ==
    /\ DROP_EVENTS = <<>>
    /\ kfree_log = <<>>
FlowsIdle ==
    /\ FLOWS = <<>>
    /\ FLOW_EVENTS = <<>>
    /\ socks = {}
    /\ ktime = 0
    /\ flow_log = <<>>
NoFilter == [ dst_ip |-> <<>>, dst_port |-> <<>>, src_ip |-> <<>>, src_port |-> <<>>,
              protocol |-> <<>>, count |-> 20, timeout_secs |-> 30 ]
TraceIdle ==
    /\ tr_pc = "idle"
    /\ tr_filter = NoFilter
    /\ drop_rb = <<>>
    /\ event_count = 0
    /\ tr_elapsed = 0
    /\ tr_printed = <<>>
\* Updater::upgrade: the callers of the updater and the installed binary
Updaters == {"agent", "cli"}
OldBinary == "sha_old"
UpgradeIdle ==
    /\ up_pc = [ p \in Updaters |-> "absent" ]
    /\ up_fd = [ p \in Updaters |-> <<>> ]
    /\ up_verified = [ p \in Updaters |-> FALSE ]
    /\ up_replaced = [ p \in Updaters |-> FALSE ]
    /\ up_restarted = [ p \in Updaters |-> FALSE ]
    /\ fs_temp = <<>>
    /\ fs_binary = 1
    /\ inodes = << OldBinary >>
ReportIdle ==
    /\ rp_installed = 1
    /\ rp_running = <<>>
    /\ rp_state = <<>>
    /\ rp_identity = <<>>
    /\ rp_sent = <<>>
\* The Kubernetes manager: the pods, container ids and policies of the watched cluster
PodNames == {"frontend", "backend"}
Cids == {"c1", "c2"}
PolicyKeys == { <<"default", "deny">>, <<"default", "egress">>, <<"prod", "deny">> }
K8sIdle ==
    /\ cl_pods = [ p \in PodNames |-> <<>> ]
    /\ pod_listed = FALSE
    /\ pod_events = 0
    /\ container_cache = [ c \in Cids |-> <<>> ]
    /\ cl_policies = [ k \in PolicyKeys |-> <<>> ]
    /\ policy_listed = FALSE
    /\ policy_events = 0
    /\ policy_seen = [ k \in PolicyKeys |-> [ kind |-> "never", obj |-> <<>>, applied |-> 0 ] ]
    /\ policy_index = <<>>
    /\ in_cluster = FALSE
    /\ sync_task = "none"
    /\ dg_pc = "absent"
    /\ dg_args = << "frontend", "backend" >>
    /\ dg_status = <<>>
LateIdle == UpgradeIdle /\ ReportIdle /\ K8sIdle
ToolsIdle ==
    /\ LateIdle
    /\ ConfigIdle
    /\ VersionsIdle
    /\ CryptoIdle
    /\ FilterIdle
    /\ TcIdle
    /\ DropIdle
    /\ FlowsIdle
    /\ TraceIdle

TelemetryIdle ==
    /\ IdentIdle
    /\ CountersIdle
    /\ LoaderIdle
    /\ ToolsIdle

\* No heartbeat task yet, nothing sent
InitHeartbeat ==
    /\ edits = 0
    /\ startup_err = "none"
    /\ exit_code = -1
    /\ aborted = FALSE
    /\ abort_at = "none"
    /\ interval = 0
    /\ ticks = 0
    /\ slept = None
    /\ current_interval = 0
    /\ elapsed = 0
    /\ delay = 0
    /\ reply = None
    /\ parse_failed = FALSE
    /\ response = NoResponse
    /\ last_result = "none"
    /\ act = NoAct

\* The process right after exec of main
Init ==
    /\ InitHeartbeat
    /\ TelemetryIdle
    /\ config_file \in ConfigInputs
    /\ state_file \in {"absent", "corrupt", "valid"}
    /\ interface = ""
    /\ ebpf = "unset"
    /\ main_pc = "load_config"
    /\ config = NoConfig
    /\ hb_pc = "idle"
    /\ rng = {"max"}
    /\ rtts = {0}

\* The daemon right after tokio::spawn of the heartbeat task, started from the
\* default config file with nothing set in the environment
InitBackoff ==
    /\ InitHeartbeat
    /\ TelemetryIdle
    /\ config_file = ConfigFile(GoodKey, GoodUrl, default_heartbeat_interval)
    /\ state_file = "valid"
    /\ interface = "eth0"
    /\ ebpf = "loaded"
    /\ main_pc = "waiting"
    /\ config = Unwrap(load(config_file, NoEnv))
    /\ hb_pc = "spawned"
    /\ rng = {"min", "max"}
    /\ rtts = {0, 30000}

\* ------------------------------------------------------------------------
\* identity.rs
\* ------------------------------------------------------------------------
\* IdentityManager::load_or_create on state file sf; io_ok tells whether the
\* file system calls it makes (create_dir_all, read_to_string, write) succeed.
\* ok is Ok(_) against Err, file the state file afterwards; a failed
\* fs::write leaves no file or a partial one
load_or_create(sf, io_ok, partial) ==
    IF sf = "valid" THEN [ok |-> io_ok, file |-> sf]
    ELSE IF sf = "corrupt" THEN [ok |-> FALSE, file |-> sf]
    ELSE IF io_ok THEN [ok |-> TRUE, file |-> "valid"]
    ELSE [ok |-> FALSE, file |-> IF partial THEN "corrupt" ELSE "absent"]

\* ------------------------------------------------------------------------
\* main.rs: daemon start-up
\* ------------------------------------------------------------------------
\* main returns Err(e): the process exits with status 1
Fatal(what) ==
    /\ startup_err' = what
    /\ main_pc' = "exit_err"
    /\ exit_code' = 1

\* let config = match Config::load() { Ok(cfg) => cfg, Err(e) => return Err(e) }
LoadConfig ==
    /\ main_pc = "load_config"
    /\ \E e \in Envs :
         LET r == load(config_file, e)
         IN IF IsSome(r)
            THEN /\ config' = Unwrap(r)
                 /\ main_pc' = "load_identity"
                 /\ UNCHANGED << startup_err, exit_code >>
            ELSE /\ Fatal("config")
                 /\ UNCHANGED config
    /\ UNCHANGED << interface, ebpf, diskVars, hbVars, backoffVars, aborted, abort_at, rng, rtts >>
    /\ UNCHANGED telemetryVars

\* Mutant of LoadIdentity: an Err of load_or_create is logged and start-up goes on
LoadIdentityLenient ==
    /\ main_pc = "load_identity"
    /\ \E io_ok \in BOOLEAN, partial \in BOOLEAN :
         state_file' = load_or_create(state_file, io_ok, partial).file
    /\ main_pc' = "discover_interface"
    /\ UNCHANGED << config, startup_err, exit_code, interface, ebpf, config_file, edits,
                    hbVars, backoffVars, aborted, abort_at, rng, rtts >>
    /\ UNCHANGED telemetryVars

\* let identity = match IdentityManager::load_or_create(&config) { ... }
LoadIdentity ==
    /\ main_pc = "load_identity"
    /\ \E io_ok \in BOOLEAN, partial \in BOOLEAN :
         LET r == load_or_create(state_file, io_ok, partial)
         IN /\ state_file' = r.file
            /\ IF r.ok
               THEN /\ main_pc' = "discover_interface"
                    /\ UNCHANGED << startup_err, exit_code >>
               ELSE Fatal("identity")
    /\ UNCHANGED << config, interface, ebpf, config_file, edits, hbVars,
                    backoffVars, aborted, abort_at, rng, rtts >>
    /\ UNCHANGED telemetryVars

\* interface::discover_default_interface: Err becomes the empty name
DiscoverInterface ==
    /\ main_pc = "discover_interface"
    /\ \E found \in BOOLEAN : interface' = IF found THEN "eth0" ELSE ""
    /\ main_pc' = "load_ebpf"
    /\ UNCHANGED << config, startup_err, ebpf, exit_code, diskVars, hbVars,
                    backoffVars, aborted, abort_at, rng, rtts >>
    /\ UNCHANGED telemetryVars

\* let _ebpf_manager = if !interface.is_empty() { match load_and_attach ... }
\* Err(e) is warned about ("Continuing without packet analysis") and gives None
LoadEbpf ==
    /\ main_pc = "load_ebpf"
    /\ IF interface # ""
       THEN \E ok \in BOOLEAN : ebpf' = IF ok THEN "loaded" ELSE "failed"
       ELSE ebpf' = "skipped"
    /\ main_pc' = "spawn"
    /\ UNCHANGED << config, startup_err, interface, exit_code, diskVars, hbVars,
                    backoffVars, aborted, abort_at, rng, rtts >>
    /\ UNCHANGED telemetryVars

\* SentinelClient::new (always Ok), HeartbeatLoop::new, tokio::spawn
Spawn ==
    /\ main_pc = "spawn"
    /\ hb_pc' = "spawned"
    /\ main_pc' = "waiting"
    /\ UNCHANGED << config, startup_err, interface, ebpf, exit_code, diskVars,
                    interval, ticks, slept, reply, parse_failed, response,
                    last_result, act, backoffVars, aborted, abort_at, rng, rtts >>
    /\ UNCHANGED telemetryVars

\* ------------------------------------------------------------------------
\* main.rs: shutdown
\* ------------------------------------------------------------------------
\* shutdown_signal().await completes: Ctrl+C or SIGTERM arrived
Signal ==
    /\ main_pc = "waiting"
    /\ main_pc' = "signalled"
    /\ UNCHANGED << config, startup_err, interface, ebpf, exit_code, diskVars, hbVars,
                    backoffVars, aborted, abort_at, rng, rtts >>
    /\ UNCHANGED telemetryVars

\* The task's only await is the sleep of run (and its first poll): an aborted
\* task that is suspended there is dropped, one that is being polled goes on
\* until it reaches the await
Suspended(pc) == pc \in {"spawned", "sleep"}

\* Mutant of Abort: the task is dropped wherever it is, as if send_heartbeat
\* awaited
AbortAnywhere ==
    /\ main_pc = "signalled"
    /\ aborted' = TRUE
    /\ abort_at' = IF Suspended(hb_pc) THEN "suspended" ELSE "polling"
    /\ hb_pc' = "cancelled"
    /\ main_pc' = "stopped"
    /\ UNCHANGED << config, startup_err, interface, ebpf, exit_code, diskVars,
                    interval, ticks, slept, reply, parse_failed, response,
                    last_result, act, backoffVars, rng, rtts >>
    /\ UNCHANGED telemetryVars

\* heartbeat_handle.abort(); main returns Ok(())
Abort ==
    /\ main_pc = "signalled"
    /\ aborted' = TRUE
    /\ abort_at' = IF Suspended(hb_pc) THEN "suspended"
                    ELSE IF hb_pc \in {"panicked", "returned"} THEN "finished"
                    ELSE "polling"
    /\ hb_pc' = IF Suspended(hb_pc) THEN "cancelled" ELSE hb_pc
    /\ main_pc' = "stopped"
    /\ UNCHANGED << config, startup_err, interface, ebpf, exit_code, diskVars,
                    interval, ticks, slept, reply, parse_failed, response,
                    last_result, act, backoffVars, rng, rtts >>
    /\ UNCHANGED telemetryVars

\* The runtime is dropped when main has returned: it waits for the worker
\* that polls the heartbeat task, then the process exits with status 0
Exit ==
    /\ main_pc = "stopped"
    /\ hb_pc \in {"cancelled", "panicked", "returned"}
    /\ main_pc' = "exit_ok"
    /\ exit_code' = 0
    /\ UNCHANGED << config, startup_err, interface, ebpf, diskVars, hbVars,
                    backoffVars, aborted, abort_at, rng, rtts >>
    /\ UNCHANGED telemetryVars

\* The operator edits the config file while the agent runs
EditConfigFile ==
    /\ main_pc = "waiting"
    /\ edits < MaxEdits
    /\ \E f \in ConfigFiles : f # config_file /\ config_file' = f
    /\ edits' = edits + 1
    /\ UNCHANGED << mainVars, state_file, hbVars, backoffVars, aborted,
                    abort_at, rng, rtts >>
    /\ UNCHANGED telemetryVars

\* ------------------------------------------------------------------------
\* heartbeat.rs: HeartbeatLoop
\* ------------------------------------------------------------------------
\* Where the task is after `tokio::time::sleep(interval).await` was reached
AtAwait == IF aborted THEN "cancelled" ELSE "sleep"

\* send_heartbeat is entered: the request is built and backoff::retry resets
\* the ExponentialBackoff (current_interval = initial_interval, start_time = now)
BeginAttempt(sl) ==
    /\ ticks < MaxTicks
    /\ ticks' = ticks + 1
    /\ slept' = sl
    /\ current_interval' = InitialIntervalMs
    /\ elapsed' = 0
    /\ delay' = 0
    /\ reply' = None
    /\ parse_failed' = FALSE
    /\ response' = NoResponse
    /\ act' = NoAct
    /\ hb_pc' = "try"

\* First poll of run: `interval` is computed, the loop is entered
FirstPoll ==
    /\ hb_pc = "spawned"
    /\ interval' = from_secs(config.heartbeat_interval_secs)
    /\ BeginAttempt(None)
    /\ UNCHANGED << mainVars, diskVars, last_result, aborted, abort_at, rng, rtts >>
    /\ UNCHANGED telemetryVars

\* The sleep of run is over: the loop calls send_heartbeat again
Tick ==
    /\ hb_pc = "sleep"
    /\ BeginAttempt(Some(interval))
    /\ UNCHANGED << mainVars, diskVars, interval, last_result, aborted, abort_at, rng, rtts >>
    /\ UNCHANGED telemetryVars

\* One call of the closure given to backoff::retry: client.heartbeat, and on
\* Err (of either kind) Error::transient and next_backoff
Try ==
    /\ hb_pc = "try"
    /\ \E rep \in Replies, rtt \in rtts, r \in rng :
         LET res == heartbeat(rep)
             now == elapsed + rtt
             nb == next_backoff(current_interval, now, r)
         IN /\ reply' = Some(rep)
            /\ elapsed' = IF res.ok \/ ~IsSome(nb) THEN 0 ELSE now
            /\ IF res.ok
               THEN /\ response' = res
                    /\ last_result' = "ok"
                    /\ hb_pc' = "handle"
                    /\ current_interval' = 0
                    /\ delay' = 0
                    /\ UNCHANGED parse_failed
               ELSE /\ parse_failed' = (parse_failed \/ res.err = "parse")
                    /\ IF IsSome(nb)
                       THEN /\ delay' = Unwrap(nb)
                            /\ current_interval' = IncrementCurrentInterval(current_interval)
                            /\ hb_pc' = "backoff_sleep"
                            /\ UNCHANGED last_result
                       ELSE /\ delay' = 0
                            /\ current_interval' = 0
                            /\ hb_pc' = "failed"
                            /\ last_result' = "err"
                    /\ UNCHANGED response
    /\ UNCHANGED << mainVars, diskVars, interval, ticks, slept, act, aborted,
                    abort_at, rng, rtts >>
    /\ UNCHANGED telemetryVars

\* retry sleeps the delay on its thread, then calls the closure again
BackoffSleep ==
    /\ hb_pc = "backoff_sleep"
    /\ elapsed' = elapsed + delay
    /\ reply' = None
    /\ hb_pc' = "try"
    /\ UNCHANGED << mainVars, diskVars, interval, ticks, slept, parse_failed,
                    response, last_result, act, current_interval, delay, aborted,
                    abort_at, rng, rtts >>
    /\ UNCHANGED telemetryVars

\* Mutant of AttemptFailed: the Err arm leaves run (as `?` would)
AttemptFailedReturns ==
    /\ hb_pc = "failed"
    /\ hb_pc' = "returned"
    /\ reply' = None
    /\ parse_failed' = FALSE
    /\ UNCHANGED << mainVars, diskVars, interval, ticks, slept,
                    response, last_result, act, backoffVars, aborted, abort_at, rng, rtts >>
    /\ UNCHANGED telemetryVars

\* Mutant of AttemptFailed: the Err arm goes round the loop at once (as
\* `continue` would), without the sleep
AttemptFailedNoSleep ==
    /\ hb_pc = "failed"
    /\ BeginAttempt(None)
    /\ UNCHANGED << mainVars, diskVars, interval, last_result, aborted, abort_at,
                    rng, rtts >>
    /\ UNCHANGED telemetryVars

\* Err(e) => warn!("Heartbeat failed: {}", e), then the sleep of the loop
AttemptFailed ==
    /\ hb_pc = "failed"
    /\ hb_pc' = AtAwait
    /\ reply' = None
    /\ parse_failed' = FALSE
    /\ UNCHANGED << mainVars, diskVars, interval, ticks, slept,
                    response, last_result, act, backoffVars, aborted, abort_at, rng, rtts >>
    /\ UNCHANGED telemetryVars

\* Mutant of handle_command: the re-exec does not depend on what upgrade returned
handle_command_exec_always(command, latest_version, new_ok, u, exe) ==
    IF command = "CommandUpgrade"
    THEN IF ~new_ok THEN [updater |-> "new_failed", replaced |-> FALSE, exec |-> "none"]
         ELSE [updater |-> IF u.ok THEN "ok" ELSE "err", replaced |-> u.replaced,
               exec |-> exe]
    ELSE [updater |-> "none", replaced |-> FALSE, exec |-> "none"]

\* handle_command(command, latest_version): new_ok is Updater::new() being Ok,
\* u the result of updater.upgrade(), exe what current_exe()/exec() do:
\* "ok" (the image is replaced), "failed" (exec returned an error) or "panic"
\* (current_exe().unwrap() panicked).  latest_version is only logged, and
\* CommandReconfigure only warns "Config reload not yet implemented"
handle_command(command, latest_version, new_ok, u, exe) ==
    IF command = "CommandUpgrade"
    THEN IF ~new_ok THEN [updater |-> "new_failed", replaced |-> FALSE, exec |-> "none"]
         ELSE IF ~u.ok THEN [updater |-> "err", replaced |-> u.replaced, exec |-> "none"]
         ELSE [updater |-> "ok", replaced |-> u.replaced, exec |-> exe]
    ELSE [updater |-> "none", replaced |-> FALSE, exec |-> "none"]

\* What the updater meets when handle_command runs it (one fixed value when
\* the command does not run it)
UpgradeInputs(command) ==
    IF command = "CommandUpgrade"
    THEN [ new_ok : BOOLEAN, latest : LatestVersions, file : Downloads,
           expected : Checksums, rename_ok : BOOLEAN, exe : {"ok", "failed", "panic"} ]
    ELSE { [ new_ok |-> TRUE, latest |-> None, file |-> None, expected |-> None,
             rename_ok |-> TRUE, exe |-> "ok" ] }

\* Mutant of HandleCommand: the Ok arm is left only by the exec, the response
\* is dispatched again and again
HandleCommandAgain ==
    /\ hb_pc = "handle"
    /\ \E in \in UpgradeInputs(response.command) :
         LET h == handle_command(response.command, response.latest_version, in.new_ok,
                                 upgrade(in.latest, in.file, in.expected, in.rename_ok),
                                 in.exe)
         IN /\ act' = [ command |-> response.command,
                        latest_version |-> response.latest_version,
                        updater |-> h.updater, replaced |-> h.replaced,
                        exec |-> h.exec ]
            /\ reply' = None
            /\ response' = response
            /\ parse_failed' = FALSE
            /\ hb_pc' = CASE h.exec = "ok" -> "execed"
                          [] h.exec = "panic" -> "panicked"
                          [] OTHER -> "handle"
            /\ main_pc' = IF h.exec = "ok" THEN "execed" ELSE main_pc
    /\ UNCHANGED << config, startup_err, interface, ebpf, exit_code, config_file,
                    edits, state_file, interval, ticks, slept,
                    last_result, backoffVars, aborted, abort_at, rng, rtts >>
    /\ UNCHANGED telemetryVars

\* Ok(response) => handle_command(&response.command, &response.latest_version),
\* then the sleep of the loop unless the process image was replaced
HandleCommand ==
    /\ hb_pc = "handle"
    /\ \E in \in UpgradeInputs(response.command) :
         LET h == handle_command(response.command, response.latest_version, in.new_ok,
                                 upgrade(in.latest, in.file, in.expected, in.rename_ok),
                                 in.exe)
         IN /\ act' = [ command |-> response.command,
                        latest_version |-> response.latest_version,
                        updater |-> h.updater, replaced |-> h.replaced,
                        exec |-> h.exec ]
            /\ reply' = None
            /\ response' = NoResponse
            /\ parse_failed' = FALSE
            /\ hb_pc' = CASE h.exec = "ok" -> "execed"
                          [] h.exec = "panic" -> "panicked"
                          [] OTHER -> AtAwait
            /\ main_pc' = IF h.exec = "ok" THEN "execed" ELSE main_pc
    /\ UNCHANGED << config, startup_err, interface, ebpf, exit_code, config_file,
                    edits, state_file, interval, ticks, slept,
                    last_result, backoffVars, aborted, abort_at, rng, rtts >>
    /\ UNCHANGED telemetryVars

\* ------------------------------------------------------------------------
\* Specifications
\* ------------------------------------------------------------------------
Next ==
    \/ LoadConfig
    \/ LoadIdentity
    \/ DiscoverInterface
    \/ LoadEbpf
    \/ Spawn
    \/ Signal
    \/ Abort
    \/ Exit
    \/ EditConfigFile
    \/ FirstPoll
    \/ Tick
    \/ Try
    \/ BackoffSleep
    \/ AttemptFailed
    \/ HandleCommand

Spec == Init /\ [][Next]_vars

\* One heartbeat attempt, with every choice of jitter and round-trip time
NextBackoff ==
    \/ FirstPoll
    \/ Try
    \/ BackoffSleep
    \/ AttemptFailed
    \/ HandleCommand

SpecBackoff == InitBackoff /\ [][NextBackoff]_vars

TypeOK ==
    /\ main_pc \in {"load_config", "load_identity", "discover_interface", "load_ebpf",
                    "spawn", "waiting", "signalled", "stopped", "exit_ok", "exit_err",
                    "execed"}
    /\ hb_pc \in {"idle", "spawned", "try", "backoff_sleep", "handle", "failed",
                  "sleep", "cancelled", "execed", "panicked", "returned"}
    /\ ticks \in 0..MaxTicks

\* ------------------------------------------------------------------------
\* The daemon at rest: what the specifications of the telemetry plane start from
\* ------------------------------------------------------------------------
DaemonIdle ==
    /\ InitHeartbeat
    /\ config_file = [parse |-> "absent"]
    /\ state_file = "absent"
    /\ interface = ""
    /\ ebpf = "unset"
    /\ main_pc = "load_config"
    /\ config = NoConfig
    /\ hb_pc = "idle"
    /\ rng = {"max"}
    /\ rtts = {0}

\* ------------------------------------------------------------------------
\* identity.rs: the state file across restarts
\* ------------------------------------------------------------------------
MaxBoots == 4          \* calls of load_or_create on one state directory

\* A state file that parses: IdentityState with this agent_id
JsonFile(id) == [ kind |-> "json", agent_id |-> id ]
\* A file that does not parse: written by someone else ("garbage"), or cut
\* short while fs::write was writing it ("partial")
GarbageFile == [ kind |-> "garbage", agent_id |-> 0 ]
PartialFile == [ kind |-> "partial", agent_id |-> 0 ]
\* the agent_id of an installation that was there before the first call
InstalledId == 100

IdErr == [ ok |-> FALSE, agent_id |-> 0 ]
IdOk(id) == [ ok |-> TRUE, agent_id |-> id ]

\* fs::read_to_string(path)?, then serde_json::from_str(&content)?
load_state(f, read_ok) ==
    IF read_ok /\ f.kind = "json" THEN IdOk(f.agent_id) ELSE IdErr

\* Uuid::new_v4(): a UUID no earlier call returned; n were handed out so far
create_new_state(n) == n + 1

\* fs::write(path, content): creates or truncates the file, then writes; w is
\* "ok", "err" (the file could not be created) or "err_partial" (the write
\* failed after the file was created)
WriteOutcomes == {"ok", "err", "err_partial"}
save_state(old, id, w) ==
    IF w = "ok" THEN [ ok |-> TRUE, file |-> JsonFile(id) ]
    ELSE IF w = "err" THEN [ ok |-> FALSE, file |-> old ]
    ELSE [ ok |-> FALSE, file |-> PartialFile ]

\* Mutant: every call generates a new identity and overwrites the file
load_or_create_always_new(f, n, dir_ok, read_ok, w) ==
    LET id == create_new_state(n)
        s == save_state(f, id, w)
    IN [ res |-> IF s.ok THEN IdOk(id) ELSE IdErr, file |-> s.file, fresh |-> id ]

\* Mutant: a file that cannot be loaded is replaced by a new identity
load_or_create_regenerate(f, n, dir_ok, read_ok, w) ==
    LET id == create_new_state(n)
        s == save_state(f, id, w)
    IN IF load_state(f, read_ok).ok
       THEN [ res |-> load_state(f, read_ok), file |-> f, fresh |-> n ]
       ELSE [ res |-> IF s.ok THEN IdOk(id) ELSE IdErr, file |-> s.file, fresh |-> id ]

\* IdentityManager::load_or_create with the state file f: res is what it
\* returns, file the state file afterwards, fresh the UUIDs handed out.
\* dir_ok: create_dir_all succeeds (called only when the directory is missing,
\* and then there is no file)
IdentityManager_load_or_create(f, n, dir_ok, read_ok, w) ==
    IF f.kind = "absent" /\ ~dir_ok
    THEN [ res |-> IdErr, file |-> f, fresh |-> n ]
    ELSE IF f.kind # "absent"
    THEN [ res |-> load_state(f, read_ok), file |-> f, fresh |-> n ]
    ELSE LET id == create_new_state(n)
             s == save_state(f, id, w)
         IN [ res |-> IF s.ok THEN IdOk(id) ELSE IdErr, file |-> s.file, fresh |-> id ]

\* One start of the agent: main calls load_or_create
BootIdentity ==
    /\ Len(id_boots) < MaxBoots
    /\ \E dir_ok \in BOOLEAN, read_ok \in BOOLEAN, w \in WriteOutcomes :
         LET r == IdentityManager_load_or_create(id_file, id_fresh, dir_ok, read_ok, w)
         IN /\ id_file' = r.file
            /\ id_fresh' = r.fresh
            /\ id_boots' = Append(id_boots, r.res)
    /\ UNCHANGED exceptIdent

\* The process is killed (or the host loses power) inside save_state's
\* fs::write on first boot: nothing is returned, and the file is not there
\* yet, created but cut short, or complete
CrashInSave ==
    /\ Len(id_boots) < MaxBoots
    /\ id_file.kind = "absent"
    /\ id_fresh' = create_new_state(id_fresh)
    /\ id_file' \in {NoFile, PartialFile, JsonFile(id_fresh')}
    /\ id_boots' = Append(id_boots, [ ok |-> FALSE, agent_id |-> -1 ])
    /\ UNCHANGED exceptIdent

InitIdentity ==
    /\ DaemonIdle
    /\ id_file \in {NoFile, GarbageFile, JsonFile(InstalledId)}
    /\ id_fresh = 0
    /\ id_boots = << >>
    /\ CountersIdle
    /\ LoaderIdle
    /\ ToolsIdle

NextIdentity ==
    \/ BootIdentity
    \/ CrashInSave

SpecIdentity == InitIdentity /\ [][NextIdentity]_vars

\* ------------------------------------------------------------------------
\* sennet-ebpf/src/main.rs, heartbeat.rs, ebpf.rs: the per-CPU counters
\* ------------------------------------------------------------------------
MaxPackets == 2        \* packets seen by the classifiers
MaxSnapshots == 2      \* snapshots taken by collect_metrics
PacketLens == {60}     \* ctx.len() of a packet

CounterFields == {"rx_packets", "rx_bytes", "tx_packets", "tx_bytes", "drop_count"}

\* Mutant: the packet counter is one bit wide and wraps
CountPacketWraps(c, direction) ==
    IF direction = 0 THEN [c EXCEPT !.rx_packets = (@ + 1) % 2]
    ELSE [c EXCEPT !.tx_packets = (@ + 1) % 2]

\* process_packet, first store: counters.rx_packets += 1 (ingress, direction 0)
\* or counters.tx_packets += 1 (egress), on the slot of the local CPU
CountPacket(c, direction) ==
    IF direction = 0 THEN [c EXCEPT !.rx_packets = @ + 1]
    ELSE [c EXCEPT !.tx_packets = @ + 1]

\* process_packet, second store: counters.rx_bytes += len or tx_bytes += len
CountBytes(c, direction, len) ==
    IF direction = 0 THEN [c EXCEPT !.rx_bytes = @ + len]
    ELSE [c EXCEPT !.tx_bytes = @ + len]

\* tc_ingress / tc_egress runs on a CPU for one packet
PacketCount ==
    /\ pkts < MaxPackets
    /\ \E cpu \in CPUs, direction \in {0, 1}, len \in PacketLens :
         /\ cpu_busy[cpu] = None
         /\ COUNTERS' = [COUNTERS EXCEPT ![direction + 1][cpu] = CountPacket(@, direction)]
         /\ cpu_busy' = [cpu_busy EXCEPT ![cpu] = Some([direction |-> direction, len |-> len])]
    /\ pkts' = pkts + 1
    /\ UNCHANGED << rd_pc, rd_copy, rd_get, snaps, fold_out, exceptCounters >>

PacketBytes ==
    /\ \E cpu \in CPUs :
         /\ cpu_busy[cpu] # None
         /\ LET pkt == Unwrap(cpu_busy[cpu])
            IN COUNTERS' = [COUNTERS EXCEPT ![pkt.direction + 1][cpu] =
                                CountBytes(@, pkt.direction, pkt.len)]
         /\ cpu_busy' = [cpu_busy EXCEPT ![cpu] = None]
    /\ UNCHANGED << pkts, rd_pc, rd_copy, rd_get, snaps, fold_out, exceptCounters >>

\* for cpu_val in values.iter() { sum.<field> += cpu_val.<field> } over all
\* five fields (ebpf.rs sum_values), from CPU i on
RECURSIVE SumFrom(_, _, _)
SumFrom(values, sum, i) ==
    IF i > Len(values) THEN sum
    ELSE SumFrom(values,
                 [ f \in CounterFields |-> sum[f] + values[i][f] ],
                 i + 1)
sum_values(values) == SumFrom(values, ZeroCounters, 1)

\* Mutant: the total adds up both slots in every field
read_counters_both_slots(get0, get1) ==
    IF get0 = None \/ get1 = None THEN None
    ELSE Some(sum_values(Unwrap(get0) \o Unwrap(get1)))

\* EbpfManager::read_counters; get0, get1 are what counters_map.get(&0, 0) and
\* get(&1, 0) give: None for Err, else the per-CPU values.  None is Err
read_counters(get0, get1) ==
    IF get0 = None \/ get1 = None THEN None
    ELSE LET ingress == sum_values(Unwrap(get0))
             egress == sum_values(Unwrap(get1))
         IN Some([ rx_packets |-> ingress.rx_packets,
                   rx_bytes |-> ingress.rx_bytes,
                   tx_packets |-> egress.tx_packets,
                   tx_bytes |-> egress.tx_bytes,
                   drop_count |-> ingress.drop_count ])

\* heartbeat.rs read_ebpf_counters, the loop over slot 0
RECURSIVE AddIngress(_, _, _)
AddIngress(values, total, i) ==
    IF i > Len(values) THEN total
    ELSE AddIngress(values,
                    [total EXCEPT !.rx_packets = @ + values[i].rx_packets,
                                  !.rx_bytes = @ + values[i].rx_bytes,
                                  !.drop_count = @ + values[i].drop_count],
                    i + 1)

\* heartbeat.rs read_ebpf_counters, the loop over slot 1
RECURSIVE AddEgress(_, _, _)
AddEgress(values, total, i) ==
    IF i > Len(values) THEN total
    ELSE AddEgress(values,
                   [total EXCEPT !.tx_packets = @ + values[i].tx_packets,
                                 !.tx_bytes = @ + values[i].tx_bytes],
                   i + 1)

\* HeartbeatLoop::read_ebpf_counters; pin_ok: the pinned map exists and opens
\* as a per-CPU array.  A failed get leaves its fields at zero.  None is Err
read_ebpf_counters(pin_ok, get0, get1) ==
    IF ~pin_ok THEN None
    ELSE LET t0 == IF get0 # None THEN AddIngress(Unwrap(get0), ZeroCounters, 1)
                   ELSE ZeroCounters
             t1 == IF get1 # None THEN AddEgress(Unwrap(get1), t0, 1) ELSE t0
         IN Some(t1)

\* HeartbeatLoop::collect_metrics: the counters read, or zeros (uptime left out)
collect_metrics(r) == IF r # None THEN Unwrap(r) ELSE ZeroCounters

\* collect_metrics starts: read_ebpf_counters opens the pinned map; when that
\* fails the snapshot is all zeros
OpenPinnedMap ==
    /\ rd_pc = "idle"
    /\ Len(snaps) < MaxSnapshots
    /\ \E pin_ok \in BOOLEAN :
         IF pin_ok
         THEN /\ rd_pc' = "get0"
              /\ UNCHANGED snaps
         ELSE /\ snaps' = Append(snaps,
                    [ read |-> << FALSE, FALSE >>,
                      m |-> collect_metrics(read_ebpf_counters(FALSE, None, None)) ])
              /\ UNCHANGED rd_pc
    /\ UNCHANGED << COUNTERS, cpu_busy, pkts, rd_copy, rd_get, fold_out, exceptCounters >>

ReadSlot == IF rd_pc \in {"get0", "copy0"} THEN 1 ELSE 2

\* counters.get(&0, 0) / counters.get(&1, 0): the lookup fails, or starts to
\* copy the slot's per-CPU values
GetSlot ==
    /\ rd_pc \in {"get0", "get1"}
    /\ \E ok \in BOOLEAN :
         IF ok
         THEN /\ rd_pc' = IF rd_pc = "get0" THEN "copy0" ELSE "copy1"
              /\ UNCHANGED rd_get
         ELSE /\ rd_pc' = IF rd_pc = "get0" THEN "get1" ELSE "fold"
              /\ rd_get' = [rd_get EXCEPT ![ReadSlot] = None]
    /\ rd_copy' = << >>
    /\ UNCHANGED << COUNTERS, cpu_busy, pkts, snaps, fold_out, exceptCounters >>

\* the lookup copies the value of the next CPU, while the other CPUs go on
\* processing packets
CopyCpu ==
    /\ rd_pc \in {"copy0", "copy1"}
    /\ LET copied == Append(rd_copy, COUNTERS[ReadSlot][Len(rd_copy) + 1])
       IN IF Len(copied) < NCpus
          THEN /\ rd_copy' = copied
               /\ UNCHANGED << rd_pc, rd_get >>
          ELSE /\ rd_copy' = << >>
               /\ rd_get' = [rd_get EXCEPT ![ReadSlot] = Some(copied)]
               /\ rd_pc' = IF rd_pc = "copy0" THEN "get1" ELSE "fold"
    /\ UNCHANGED << COUNTERS, cpu_busy, pkts, snaps, fold_out, exceptCounters >>

\* read_ebpf_counters returns Ok(total); collect_metrics returns the snapshot
Snapshot ==
    /\ rd_pc = "fold"
    /\ snaps' = Append(snaps,
          [ read |-> << rd_get[1] # None, rd_get[2] # None >>,
            m |-> collect_metrics(read_ebpf_counters(TRUE, rd_get[1], rd_get[2])) ])
    /\ rd_pc' = "idle"
    /\ rd_get' = << None, None >>
    /\ UNCHANGED << COUNTERS, cpu_busy, pkts, rd_copy, fold_out, exceptCounters >>

\* A running agent: the map as allocated, classifiers attached
InitCounters ==
    /\ DaemonIdle
    /\ IdentIdle
    /\ CountersIdle
    /\ LoaderIdle
    /\ ToolsIdle

NextCounters ==
    \/ PacketCount
    \/ PacketBytes
    \/ OpenPinnedMap
    \/ GetSlot
    \/ CopyCpu
    \/ Snapshot

SpecCounters == InitCounters /\ [][NextCounters]_vars

\* CPU i of the synthetic array holds (k*i, 2*k*i, 3*k*i, 4*k*i, 5*k*i)
Synthetic(k, i) == [ rx_packets |-> k * i, rx_bytes |-> 2 * k * i,
                     tx_packets |-> 3 * k * i, tx_bytes |-> 4 * k * i,
                     drop_count |-> 5 * k * i ]
SyntheticMaps ==
    [ 1..2 -> { row \in [ CPUs -> { Synthetic(k, i) : k \in {0, 1, 7}, i \in CPUs } ] :
                  \A i \in CPUs : \E k \in {0, 1, 7} : row[i] = Synthetic(k, i) } ]

\* Any contents of the two slots
InitFold ==
    /\ DaemonIdle
    /\ IdentIdle
    /\ COUNTERS \in SyntheticMaps
    /\ cpu_busy = [ cpu \in CPUs |-> None ]
    /\ pkts = 0
    /\ ReaderIdle
    /\ snaps = << >>
    /\ fold_out = [ live |-> None, pinned |-> None ]
    /\ LoaderIdle
    /\ ToolsIdle

\* what a lookup of slot returns: Err, or the values of all CPUs in CPU order
Lookup(slot, ok) == IF ok THEN Some([ i \in 1..NCpus |-> COUNTERS[slot][i] ]) ELSE None

\* EbpfManager::read_counters on the live handle
ReadCounters ==
    /\ fold_out.live = None
    /\ \E ok0 \in BOOLEAN, ok1 \in BOOLEAN :
         fold_out' = [fold_out EXCEPT !.live =
             Some([ read |-> << ok0, ok1 >>,
                    res |-> read_counters(Lookup(1, ok0), Lookup(2, ok1)) ])]
    /\ UNCHANGED << COUNTERS, cpu_busy, pkts, rd_pc, rd_copy, rd_get, snaps, exceptCounters >>

\* HeartbeatLoop::read_ebpf_counters on the pinned map
ReadEbpfCounters ==
    /\ fold_out.pinned = None
    /\ \E pin_ok \in BOOLEAN, ok0 \in BOOLEAN, ok1 \in BOOLEAN :
         fold_out' = [fold_out EXCEPT !.pinned =
             Some([ read |-> << pin_ok /\ ok0, pin_ok /\ ok1 >>,
                    res |-> read_ebpf_counters(pin_ok, Lookup(1, ok0), Lookup(2, ok1)) ])]
    /\ UNCHANGED << COUNTERS, cpu_busy, pkts, rd_pc, rd_copy, rd_get, snaps, exceptCounters >>

NextFold ==
    \/ ReadCounters
    \/ ReadEbpfCounters

SpecFold == InitFold /\ [][NextFold]_vars

\* ------------------------------------------------------------------------
\* ebpf.rs: EbpfManager::load_and_attach
\* ------------------------------------------------------------------------
\* Header variants of the embedded object: the good one, one field off each,
\* and a file shorter than an ELF64 header
ElfHeaders ==
    { GoodElf,
      [GoodElf EXCEPT !.e_ehsize = 52],
      [GoodElf EXCEPT !.e_shentsize = 40],
      [GoodElf EXCEPT !.e_shentsize = 0],
      [GoodElf EXCEPT !.e_shoff = 136],
      [GoodElf EXCEPT !.e_shoff = 68],
      [GoodElf EXCEPT !.e_machine = 62],
      [GoodElf EXCEPT !.len = 32, !.e_ehsize = 52] }

\* "Comprehensive ELF64 header inspection": the errors it logs
InspectHeader(e) ==
    IF e.len >= 64
    THEN (IF e.e_ehsize # 64 THEN {"e_ehsize"} ELSE {})
         \cup (IF e.e_shentsize # 64 /\ e.e_shentsize # 0 THEN {"e_shentsize"} ELSE {})
         \cup (IF e.e_shoff > e.len THEN {"e_shoff past end"} ELSE {})
         \cup (IF e.e_shoff % 8 # 0 THEN {"e_shoff alignment"} ELSE {})
         \cup (IF e.e_machine # 247 THEN {"e_machine"} ELSE {})
    ELSE {}

\* How the steps of one program can end: bpf.program_mut(name) is None,
\* try_into fails, load() fails, attach() fails, or the program is attached
AllOutcomes == {"missing", "wrong_type", "load_err", "attach_err", "attached"}
AllPins == {"counters", "drop_events", "nf_events", "flows", "flow_events"}
OptionalProbes == ProbeNames \ {"tc_ingress", "tc_egress"}

\* the program after Probes[i], "returned" after the last
NextPc(p) ==
    LET i == CHOOSE k \in 1..Len(Probes) : Probes[k] = p
    IN IF i = Len(Probes) THEN "returned" ELSE Probes[i + 1]

\* the programs attached so far in this run
Attached == { p \in ProbeNames : outcomes[p] = "attached" }

\* kernel operations a program's steps made: load() was called and succeeded
\* when the outcome is attach_err or attached
OpsOf(proc, o) ==
    (IF o \in {"attach_err", "attached"} THEN {[ proc |-> proc, op |-> "load" ]} ELSE {})
    \cup (IF o = "attached" THEN {[ proc |-> proc, op |-> "attach" ]} ELSE {})

\* dropping a Bpf (or an EbpfManager) that has attached programs detaches them
DropOps(proc, attached) ==
    IF attached # {} THEN {[ proc |-> proc, op |-> "detach" ]} ELSE {}

\* return Err(..) / a panic out of load_and_attach: the local `bpf` is dropped
Fail(status, cause, attached) ==
    /\ handle' = [handle EXCEPT !.status = status, !.cause = cause]
    /\ ld_pc' = "returned"
    /\ probe_ops' = probe_ops \cup DropOps(ld_caller, attached)

InspectElf ==
    /\ ld_pc = "inspect"
    /\ ld_invalid' = InspectHeader(elf)
    /\ ld_pc' = "bpf_load"
    /\ UNCHANGED << ld_caller, elf, bpf_load_called, pin_dir, pins, pin_errs, outcomes,
                    handle, probe_outcomes, held, probe_ops, cmds, exceptLoader >>

\* let mut bpf = match Bpf::load(ebpf_bytes) { Ok(b) => b, Err(e) => return Err(..) }
\* whether aya accepts the object is aya's business
BpfLoad ==
    /\ ld_pc = "bpf_load"
    /\ bpf_load_called' = TRUE
    /\ \E ok \in BOOLEAN :
         IF ok
         THEN /\ ld_pc' = "pin"
              /\ UNCHANGED << handle, probe_ops >>
         ELSE Fail("err", "bpf_load", {})
    /\ UNCHANGED << ld_caller, elf, ld_invalid, pin_dir, pins, pin_errs, outcomes,
                    probe_outcomes, held, cmds, exceptLoader >>

\* let _ = map.pin(path) for each of names: Err when the path exists already
\* or the pin fails (ok = FALSE); the result is dropped either way
PinAll(names, ok) ==
    /\ pins' = IF ok THEN pins \cup names ELSE pins
    /\ pin_errs' = pin_errs \cup (IF ok THEN names \cap pins ELSE names)

\* The map a pinned entry refers to once this run went through its pin: the
\* map of this run's Bpf ("live") when map.pin made the entry, the map of the
\* run that left the entry ("earlier") when map.pin returned Err on it
PinnedMap(name) == IF name \in pin_errs THEN "earlier" ELSE "live"

\* Mutant of PinMaps: an Err of map.pin is returned
PinMapsStrict ==
    /\ ld_pc = "pin"
    /\ \E mk_ok \in BOOLEAN, ok \in BOOLEAN :
         IF ~pin_dir /\ ~mk_ok
         THEN /\ Fail("err", "create_dir", {})
              /\ UNCHANGED << pin_dir, pins, pin_errs >>
         ELSE /\ pin_dir' = TRUE
              /\ PinAll({"counters", "drop_events"}, ok)
              /\ IF pin_errs' # {}
                 THEN Fail("err", "pin", {})
                 ELSE /\ ld_pc' = "tc_ingress"
                      /\ UNCHANGED << handle, probe_ops >>
    /\ UNCHANGED << ld_caller, elf, ld_invalid, bpf_load_called, outcomes,
                    probe_outcomes, held, cmds, exceptLoader >>

\* if !pin_path.exists() { create_dir_all(pin_path)? }, then COUNTERS and
\* DROP_EVENTS are pinned
PinMaps ==
    /\ ld_pc = "pin"
    /\ \E mk_ok \in BOOLEAN, ok \in BOOLEAN :
         IF ~pin_dir /\ ~mk_ok
         THEN /\ Fail("err", "create_dir", {})
              /\ UNCHANGED << pin_dir, pins, pin_errs >>
         ELSE /\ pin_dir' = TRUE
              /\ PinAll({"counters", "drop_events"}, ok)
              /\ ld_pc' = "tc_ingress"
              /\ UNCHANGED << handle, probe_ops >>
    /\ UNCHANGED << ld_caller, elf, ld_invalid, bpf_load_called, outcomes,
                    probe_outcomes, held, cmds, exceptLoader >>

\* bpf.program_mut(name).unwrap().try_into()?; load()?; attach(..)? for
\* tc_ingress, then tc_egress
AttachTc ==
    /\ ld_pc \in {"tc_ingress", "tc_egress"}
    /\ \E o \in probe_outcomes :
         /\ outcomes' = [outcomes EXCEPT ![ld_pc] = o]
         /\ IF o = "attached"
            THEN /\ ld_pc' = NextPc(ld_pc)
                 /\ probe_ops' = probe_ops \cup OpsOf(ld_caller, o)
                 /\ UNCHANGED handle
            ELSE /\ handle' = [handle EXCEPT !.status = IF o = "missing" THEN "panic" ELSE "err",
                                             !.cause = ld_pc]
                 /\ ld_pc' = "returned"
                 /\ probe_ops' = probe_ops \cup OpsOf(ld_caller, o)
                                           \cup DropOps(ld_caller, Attached)
    /\ UNCHANGED << ld_caller, elf, ld_invalid, bpf_load_called, pin_dir, pins, pin_errs,
                    probe_outcomes, held, cmds, exceptLoader >>

\* the flag assignments of the optional blocks: drop_tracing_enabled = true
\* after kfree_skb attached, nf_tracing_enabled = true after nf_hook_slow
\* attached, flow_tracing_enabled = true after tcp_connect attached
OptionalFlags(h, p, o) ==
    IF o # "attached" THEN h
    ELSE IF p = "kfree_skb" THEN [h EXCEPT !.drop_tracing_enabled = TRUE]
    ELSE IF p = "nf_hook_slow" THEN [h EXCEPT !.nf_tracing_enabled = TRUE]
    ELSE IF p = "tcp_connect" THEN [h EXCEPT !.flow_tracing_enabled = TRUE]
    ELSE h

\* the maps pinned right after the block of a program
PinsAfter(p) ==
    IF p = "nf_hook_slow" THEN {"nf_events"}
    ELSE IF p = "tcp_close" THEN {"flows", "flow_events"}
    ELSE {}

\* Mutant of AttachOptional: a failure of an optional program is returned
AttachOptionalStrict ==
    /\ ld_pc \in OptionalProbes
    /\ \E o \in probe_outcomes, ok \in BOOLEAN :
         /\ outcomes' = [outcomes EXCEPT ![ld_pc] = o]
         /\ PinAll(PinsAfter(ld_pc), ok)
         /\ probe_ops' = probe_ops \cup OpsOf(ld_caller, o)
         /\ ld_pc' = IF o = "attached" THEN NextPc(ld_pc) ELSE "returned"
         /\ handle' = IF o # "attached"
                      THEN [handle EXCEPT !.status = "err", !.cause = ld_pc]
                      ELSE [OptionalFlags(handle, ld_pc, o) EXCEPT
                               !.status = IF NextPc(ld_pc) = "returned" THEN "ok" ELSE @]
         /\ held' = IF ld_pc' = "returned" /\ o = "attached"
                    THEN held \cup {ld_caller} ELSE held
    /\ UNCHANGED << ld_caller, elf, ld_invalid, bpf_load_called, pin_dir,
                    probe_outcomes, cmds, exceptLoader >>

\* One optional block (kfree_skb, nf_hook_slow, tcp_connect, inet_csk_accept,
\* tcp_close) with the pins that follow it; after the last one
\* Ok(Self { .., drop_tracing_enabled, nf_tracing_enabled, flow_tracing_enabled })
AttachOptional ==
    /\ ld_pc \in OptionalProbes
    /\ \E o \in probe_outcomes, ok \in BOOLEAN :
         /\ outcomes' = [outcomes EXCEPT ![ld_pc] = o]
         /\ PinAll(PinsAfter(ld_pc), ok)
         /\ probe_ops' = probe_ops \cup OpsOf(ld_caller, o)
    /\ ld_pc' = NextPc(ld_pc)
    /\ handle' = [OptionalFlags(handle, ld_pc, outcomes'[ld_pc]) EXCEPT
                     !.status = IF ld_pc' = "returned" THEN "ok" ELSE @]
    /\ held' = IF ld_pc' = "returned" THEN held \cup {ld_caller} ELSE held
    /\ UNCHANGED << ld_caller, elf, ld_invalid, bpf_load_called, pin_dir,
                    probe_outcomes, cmds, exceptLoader >>

\* main calls load_and_attach for the interface it discovered, on any header
\* the embedded object may have, with or without pins left by an earlier run
InitLoader ==
    /\ DaemonIdle
    /\ IdentIdle
    /\ CountersIdle
    /\ ToolsIdle
    /\ ld_pc = "inspect"
    /\ ld_caller = "agent"
    /\ elf \in ElfHeaders
    /\ ld_invalid = {}
    /\ bpf_load_called = FALSE
    /\ pin_dir \in BOOLEAN
    /\ pins = IF pin_dir THEN AllPins ELSE {}
    /\ pin_errs = {}
    /\ outcomes = [ p \in ProbeNames |-> "not_tried" ]
    /\ handle = [NoHandle EXCEPT !.status = "running"]
    /\ probe_outcomes = AllOutcomes
    /\ held = {}
    /\ probe_ops = {}
    /\ cmds = {}

NextLoader ==
    \/ InspectElf
    \/ BpfLoad
    \/ PinMaps
    \/ AttachTc
    \/ AttachOptional

SpecLoader == InitLoader /\ [][NextLoader]_vars

\* ------------------------------------------------------------------------
\* main.rs dispatch: the agent and the subcommands top, trace, flows
\* ------------------------------------------------------------------------
Ran(c) == \E r \in cmds : r.cmd = c

\* entry of load_and_attach for the process proc
EnterLoad(proc) ==
    /\ ld_pc \in {"idle", "returned"}
    /\ ld_caller \in {"none", "agent"}
    /\ ld_pc' = "inspect"
    /\ ld_caller' = proc
    /\ ld_invalid' = {}
    /\ bpf_load_called' = FALSE
    /\ pin_errs' = {}
    /\ outcomes' = [ p \in ProbeNames |-> "not_tried" ]
    /\ handle' = [NoHandle EXCEPT !.status = "running"]

\* sennet with no subcommand: the daemon loads and attaches at startup
StartAgentLoader ==
    /\ ~Ran("agent")
    /\ EnterLoad("agent")
    /\ cmds' = cmds \cup {[ cmd |-> "agent", result |-> "started" ]}
    /\ UNCHANGED << elf, pin_dir, pins, probe_outcomes, held, probe_ops, exceptLoader >>

\* the daemon process ends: its EbpfManager is dropped
AgentExit ==
    /\ "agent" \in held
    /\ ld_pc = "returned"
    /\ ld_caller = "agent"
    /\ held' = held \ {"agent"}
    /\ probe_ops' = probe_ops \cup DropOps("agent", ProbeNames)
    /\ ld_caller' = "none"
    /\ ld_pc' = "idle"
    /\ UNCHANGED << elf, ld_invalid, bpf_load_called, pin_dir, pins, pin_errs, outcomes,
                    handle, probe_outcomes, cmds, exceptLoader >>

\* sennet flows: let manager = EbpfManager::load_and_attach(&interface)?;
RunFlows ==
    /\ ~Ran("flows")
    /\ ld_caller # "flows"
    /\ EnterLoad("flows")
    /\ UNCHANGED << elf, pin_dir, pins, probe_outcomes, held, probe_ops, cmds, exceptLoader >>

\* ... let flows = manager.read_flows()?; print; Ok(()): the manager is
\* dropped when run returns, whatever read_flows gave
FlowsExit ==
    /\ ld_caller = "flows"
    /\ ld_pc = "returned"
    /\ \E read_ok \in BOOLEAN :
         cmds' = cmds \cup {[ cmd |-> "flows",
                              result |-> IF handle.status # "ok" THEN "err_load"
                                         ELSE IF read_ok THEN "ok" ELSE "err_read" ]}
    /\ held' = held \ {"flows"}
    /\ probe_ops' = probe_ops \cup (IF "flows" \in held THEN DropOps("flows", Attached) ELSE {})
    /\ ld_caller' = IF "agent" \in held THEN "agent" ELSE "none"
    /\ ld_pc' = IF "agent" \in held THEN "returned" ELSE "idle"
    /\ UNCHANGED << elf, ld_invalid, bpf_load_called, pin_dir, pins, pin_errs, outcomes,
                    handle, probe_outcomes, exceptLoader >>

\* sennet top: RealDataProvider::new bails when /sys/fs/bpf/sennet/counters
\* is missing and opens it with MapData::from_pin otherwise
RunTop ==
    /\ ~Ran("top")
    /\ \E open_ok \in BOOLEAN :
         cmds' = cmds \cup {[ cmd |-> "top",
                              result |-> IF "counters" \notin pins THEN "err_not_pinned"
                                         ELSE IF open_ok THEN "ok" ELSE "err_open" ]}
    /\ UNCHANGED << ld_pc, ld_caller, elf, ld_invalid, bpf_load_called, pin_dir, pins,
                    pin_errs, outcomes, handle, probe_outcomes, held, probe_ops,
                    exceptLoader >>

\* sennet trace: run_linux_trace warns and returns Ok when
\* /sys/fs/bpf/sennet/drop_events is missing, else opens it with from_pin
RunTrace ==
    /\ ~Ran("trace")
    /\ \E open_ok \in BOOLEAN :
         cmds' = cmds \cup {[ cmd |-> "trace",
                              result |-> IF "drop_events" \notin pins THEN "ok_not_pinned"
                                         ELSE IF open_ok THEN "ok" ELSE "err_open" ]}
    /\ UNCHANGED << ld_pc, ld_caller, elf, ld_invalid, bpf_load_called, pin_dir, pins,
                    pin_errs, outcomes, handle, probe_outcomes, held, probe_ops,
                    exceptLoader >>

\* a host where the embedded object is good and a program either attaches or
\* fails to attach
InitSubcommands ==
    /\ DaemonIdle
    /\ IdentIdle
    /\ CountersIdle
    /\ ToolsIdle
    /\ ld_pc = "idle"
    /\ ld_caller = "none"
    /\ elf = GoodElf
    /\ ld_invalid = {}
    /\ bpf_load_called = FALSE
    /\ pin_dir \in BOOLEAN
    /\ pins = IF pin_dir THEN AllPins ELSE {}
    /\ pin_errs = {}
    /\ outcomes = [ p \in ProbeNames |-> "not_tried" ]
    /\ handle = NoHandle
    /\ probe_outcomes = {"attach_err", "attached"}
    /\ held = {}
    /\ probe_ops = {}
    /\ cmds = {}

NextSubcommands ==
    \/ StartAgentLoader
    \/ AgentExit
    \/ RunFlows
    \/ FlowsExit
    \/ RunTop
    \/ RunTrace
    \/ InspectElf
    \/ BpfLoad
    \/ PinMaps
    \/ AttachTc
    \/ AttachOptional

SpecSubcommands == InitSubcommands /\ [][NextSubcommands]_vars

\* ------------------------------------------------------------------------
\* config.rs: Config::load and Config::load_from_file on files and environments
\* ------------------------------------------------------------------------
EnvKey == SkPrefix \o <<"2">>
EnvUrl == HttpPrefix \o <<"e">>

\* config files: those of the daemon, one that sets every field, one with an
\* empty api_key and one with an empty server_url
CfgFiles ==
    ConfigInputs \cup
    { ConfigFileWith(GoodKey, GoodUrl, "debug", Some("eth0"), 10),
      ConfigFile(<<>>, GoodUrl, default_heartbeat_interval),
      ConfigFile(GoodKey, <<>>, default_heartbeat_interval) }

\* environments: each SENNET_* variable unset, or set to a usable or to an
\* unusable value
CfgEnvs ==
    [ api_key : {None, Some(EnvKey), Some(<<"b", "a", "d">>), Some(<<>>)},
      server_url : {None, Some(EnvUrl), Some(<<"x">>)},
      log_level : {None, Some("trace")},
      interface : {None, Some("eth1")},
      heartbeat_interval : {None, Some(<<"5">>), Some(<<"5", "s">>)} ]

\* a caller runs Config::load()
ConfigLoad ==
    /\ cfg_out.via = "none"
    /\ cfg_out' = [via |-> "load", result |-> load(cfg_file, cfg_env)]
    /\ UNCHANGED << cfg_file, cfg_env, exceptConfig >>

\* a caller runs Config::load_from_file(path)
ConfigLoadFromFile ==
    /\ cfg_out.via = "none"
    /\ cfg_out' = [via |-> "load_from_file", result |-> load_from_file(cfg_file, cfg_env)]
    /\ UNCHANGED << cfg_file, cfg_env, exceptConfig >>

BaseIdle ==
    /\ DaemonIdle
    /\ IdentIdle
    /\ CountersIdle
    /\ LoaderIdle
CoreIdle ==
    /\ BaseIdle
    /\ LateIdle

InitConfig ==
    /\ CoreIdle
    /\ VersionsIdle /\ CryptoIdle /\ FilterIdle /\ TcIdle /\ DropIdle /\ FlowsIdle /\ TraceIdle
    /\ cfg_file \in CfgFiles
    /\ cfg_env \in CfgEnvs
    /\ cfg_out = [via |-> "none", result |-> None]

NextConfig ==
    \/ ConfigLoad
    \/ ConfigLoadFromFile

SpecConfig == InitConfig /\ [][NextConfig]_vars

\* ------------------------------------------------------------------------
\* upgrade.rs: needs_upgrade on pairs of versions
\* ------------------------------------------------------------------------
MaxVersionLen == 3                \* components of a version
VersionComponents == {0, 1, 2}    \* values of a component
\* dotted numeric versions: 1 to MaxVersionLen components
Versions == UNION { [1..n -> VersionComponents] : n \in 1..MaxVersionLen }

\* the updater compares two versions, in both directions
CompareVersions ==
    /\ ver_out = None
    /\ ver_out' = Some([ fwd |-> needs_upgrade(ver_current, ver_latest),
                         bwd |-> needs_upgrade(ver_latest, ver_current) ])
    /\ UNCHANGED << ver_current, ver_latest, exceptVersions >>

InitVersions ==
    /\ CoreIdle
    /\ ConfigIdle /\ CryptoIdle /\ FilterIdle /\ TcIdle /\ DropIdle /\ FlowsIdle /\ TraceIdle
    /\ ver_current \in Versions
    /\ ver_latest \in Versions
    /\ ver_out = None

NextVersions == CompareVersions

SpecVersions == InitVersions /\ [][NextVersions]_vars

\* ------------------------------------------------------------------------
\* crypto.rs: sign_request and verify_signature
\* ------------------------------------------------------------------------
\* Bytes are numbers 0..255.  SHA-256 is taken as collision-free: a digest is
\* named by what was hashed.
BlockSize == 64      \* block size of SHA-256, which HMAC pads the key to
OutputSize == 32     \* bytes of a SHA-256 digest

\* i64::to_le_bytes: the eight bytes of the two's complement, lowest first
to_le_bytes(t) ==
    [ i \in 1..8 |->
        IF t >= 0
        THEN (IF i <= 4 THEN (t \div (256 ^ (i - 1))) % 256 ELSE 0)
        ELSE (IF i <= 4 THEN 255 - ((((-t) - 1) \div (256 ^ (i - 1))) % 256) ELSE 255) ]

\* HmacSha256::new_from_slice: a key longer than a block is hashed first, and
\* the key is then padded with zero bytes to the block size
new_from_slice(key) ==
    IF Len(key) > BlockSize
    THEN [ hashed |-> TRUE, block |-> key ]
    ELSE [ hashed |-> FALSE,
           block |-> [ i \in 1..BlockSize |-> IF i <= Len(key) THEN key[i] ELSE 0 ] ]

\* mac.update(more): the message grows by these bytes
update(mac, more) == [mac EXCEPT !.msg = @ \o more]

\* mac.finalize().into_bytes(): OutputSize bytes that depend on the padded key
\* and on the whole message
finalize(mac) == [ i \in 1..OutputSize |-> [ byte |-> i, key |-> mac.key, msg |-> mac.msg ] ]

\* hex::encode: two characters per byte, high nibble first
hex_encode(bytes) ==
    [ i \in 1..(2 * Len(bytes)) |->
        [ nibble |-> IF i % 2 = 1 THEN "hi" ELSE "lo", of |-> bytes[(i + 1) \div 2] ] ]

\* Mutant of sign_request: the timestamp is not fed to the MAC
sign_request_without_timestamp(secret, timestamp, body) ==
    hex_encode(finalize(update([ key |-> new_from_slice(secret), msg |-> <<>> ], body)))

sign_request(secret, timestamp, body) ==
    LET mac0 == [ key |-> new_from_slice(secret), msg |-> <<>> ]
        mac1 == update(mac0, to_le_bytes(timestamp))
        mac2 == update(mac1, body)
    IN hex_encode(finalize(mac2))

RECURSIVE XorFold(_, _, _)
\* the loop of constant_time_eq from index i on: TRUE when result stays 0
XorFold(a, b, i) ==
    IF i > Len(a) \/ i > Len(b) THEN TRUE
    ELSE (a[i] = b[i]) /\ XorFold(a, b, i + 1)

constant_time_eq(a, b) ==
    IF Len(a) # Len(b) THEN FALSE ELSE XorFold(a, b, 1)

verify_signature(secret, timestamp, body, signature) ==
    constant_time_eq(sign_request(secret, timestamp, body), signature)

\* secrets (one of them another one with a NUL character appended),
\* timestamps and bodies of the requests signed and verified
Secrets == { <<115>>, <<115, 0>>, <<115, 107>>, <<119>> }
Timestamps == {0, 1, 256, -1}
Bodies == { <<>>, <<7>>, <<7, 8>> }
Requests == [ secret : Secrets, t : Timestamps, body : Bodies ]

\* the agent signs one request and the receiver verifies the signature with
\* its own secret against the timestamp and body it received
SignAndVerify ==
    /\ sig_out = None
    /\ LET signature == sign_request(sig_signer.secret, sig_signer.t, sig_signer.body)
       IN sig_out' = Some([ signature |-> signature,
                            valid |-> verify_signature(sig_verifier.secret, sig_verifier.t,
                                                       sig_verifier.body, signature) ])
    /\ UNCHANGED << sig_signer, sig_verifier, exceptCrypto >>

InitCrypto ==
    /\ CoreIdle
    /\ ConfigIdle /\ VersionsIdle /\ FilterIdle /\ TcIdle /\ DropIdle /\ FlowsIdle /\ TraceIdle
    /\ sig_signer \in Requests
    /\ sig_verifier \in Requests
    /\ sig_out = None

NextCrypto == SignAndVerify

SpecCrypto == InitCrypto /\ [][NextCrypto]_vars

\* ------------------------------------------------------------------------
\* flows.rs: the filters of run
\* ------------------------------------------------------------------------
COMM_LEN == 16       \* FlowInfo.comm is [u8; 16]
NUL == "NUL"         \* the zero byte

\* a comm array: the name, then NUL, then whatever the array held before
Comm(name, rest) ==
    [ i \in 1..COMM_LEN |->
        IF i <= Len(name) THEN name[i]
        ELSE IF i = Len(name) + 1 THEN NUL
        ELSE IF i - Len(name) - 1 <= Len(rest) THEN rest[i - Len(name) - 1]
        ELSE NUL ]

\* comm_to_string: the bytes before the first NUL, all 16 when there is none
comm_to_string(comm) ==
    LET nuls == { i \in 1..Len(comm) : comm[i] = NUL }
        end == IF nuls = {} THEN Len(comm)
               ELSE (CHOOSE i \in nuls : \A j \in nuls : i <= j) - 1
    IN SubSeq(comm, 1, end)

\* char::to_lowercase on the characters of the model
LowerChar(c) ==
    CASE c = "N" -> "n" [] c = "G" -> "g" [] c = "X" -> "x" [] c = "T" -> "t"
      [] c = "C" -> "c" [] c = "P" -> "p" [] c = "U" -> "u" [] c = "D" -> "d"
      [] OTHER -> c
to_lowercase(str) == [ i \in 1..Len(str) |-> LowerChar(str[i]) ]

\* str::contains: the needle occurs at some offset of the haystack
contains(haystack, needle) ==
    \E i \in 0..(Len(haystack) - Len(needle)) :
        SubSeq(haystack, i + 1, i + Len(needle)) = needle

\* flows.retain(|(_, info)| info.pid == pid)
retain_pid(flows, pid) == SelectSeq(flows, LAMBDA f : f.info.pid = pid)

\* Mutant of retain_comm: the names are compared as they are
retain_comm_case_sensitive(flows, comm) ==
    SelectSeq(flows, LAMBDA f : contains(comm_to_string(f.info.comm), comm))

\* let comm_lower = comm.to_lowercase();
\* flows.retain(|(_, info)| comm_to_string(&info.comm).to_lowercase().contains(&comm_lower))
retain_comm(flows, comm) ==
    LET comm_lower == to_lowercase(comm)
    IN SelectSeq(flows,
                 LAMBDA f : contains(to_lowercase(comm_to_string(f.info.comm)), comm_lower))

\* "Apply filters" of run: the pid filter, then the comm filter
apply_filters(flows, opts) ==
    LET by_pid == IF IsSome(opts.filter_pid) THEN retain_pid(flows, Unwrap(opts.filter_pid))
                  ELSE flows
    IN IF IsSome(opts.filter_comm) THEN retain_comm(by_pid, Unwrap(opts.filter_comm))
       ELSE by_pid

\* the same two retains in the other order
apply_filters_comm_first(flows, opts) ==
    LET by_comm == IF IsSome(opts.filter_comm)
                   THEN retain_comm(flows, Unwrap(opts.filter_comm)) ELSE flows
    IN IF IsSome(opts.filter_pid) THEN retain_pid(by_comm, Unwrap(opts.filter_pid))
       ELSE by_comm

Flow(k, pid, comm) == [ key |-> k, info |-> [ pid |-> pid, comm |-> comm ] ]
\* the flows the map may hold: two processes, names in either case, one name
\* followed by stale bytes after its NUL, one name that fills the array
FlowPool ==
    << Flow(1, 10, Comm(<<"N", "g">>, <<>>)),
       Flow(2, 10, Comm(<<"g", "x">>, <<>>)),
       Flow(3, 20, Comm(<<"n", "g">>, <<>>)),
       Flow(4, 10, Comm(<<"n">>, <<"g">>)),
       Flow(5, 20, [ i \in 1..COMM_LEN |-> IF i = COMM_LEN THEN "G" ELSE "x" ]) >>
FlowLists == { SelectSeq(FlowPool, LAMBDA f : f.key \in ks) : ks \in SUBSET (1..Len(FlowPool)) }
FilterOptions ==
    [ filter_pid : {None, Some(10), Some(20), Some(30)},
      filter_comm : {None, Some(<<"n", "g">>), Some(<<"G">>), Some(<<>>), Some(<<"g", "n">>)} ]

\* sennet flows filters what read_flows returned
FilterFlows ==
    /\ ff_out = None
    /\ ff_out' = Some([ pid_first |-> apply_filters(ff_flows, ff_opts),
                        comm_first |-> apply_filters_comm_first(ff_flows, ff_opts) ])
    /\ UNCHANGED << ff_flows, ff_opts, exceptFilter >>

InitFilter ==
    /\ CoreIdle
    /\ ConfigIdle /\ VersionsIdle /\ CryptoIdle /\ TcIdle /\ DropIdle /\ FlowsIdle /\ TraceIdle
    /\ ff_flows \in FlowLists
    /\ ff_opts \in FilterOptions
    /\ ff_out = None

NextFilter == FilterFlows

SpecFilter == InitFilter /\ [][NextFilter]_vars

\* ------------------------------------------------------------------------
\* sennet-ebpf main.rs: the TC classifiers
\* ------------------------------------------------------------------------
TC_ACT_PIPE == 3                  \* aya_ebpf::bindings::TC_ACT_PIPE
LARGE_PACKET_THRESHOLD == 9000    \* bytes
MaxTcRuns == 2                    \* packets the classifiers see
EventsCap == 1                    \* PacketEvents the EVENTS ring has room for
TcPacketLens == {60, 9001}        \* ctx.len()

\* a packet: its length and the header fields emit_large_packet_event loads
Packet(len) == [ len |-> len, src_ip |-> 10, dst_ip |-> 8, protocol |-> 6 ]

\* emit_large_packet_event: Ok(()) always; event is Some when the reservation
\* succeeded, with every field that could not be loaded left 0
emit_large_packet_event(pkt, size, reserve_ok, load_ok) ==
    [ ok |-> TRUE,
      event |-> IF reserve_ok
                THEN Some([ event_type |-> 1, size |-> size,
                            src_ip |-> IF load_ok THEN pkt.src_ip ELSE 0,
                            dst_ip |-> IF load_ok THEN pkt.dst_ip ELSE 0,
                            protocol |-> IF load_ok THEN pkt.protocol ELSE 0 ])
                ELSE None ]

\* Mutant of process_packet: a large packet that cannot be reported is shot
process_packet_shoots_unreported(pkt, direction, reserve_ok, load_ok) ==
    IF pkt.len > LARGE_PACKET_THRESHOLD
    THEN LET e == emit_large_packet_event(pkt, pkt.len, reserve_ok, load_ok)
         IN [ ok |-> TRUE, ret |-> IF reserve_ok THEN TC_ACT_PIPE ELSE TC_ACT_PIPE - 1,
              event |-> e.event ]
    ELSE [ ok |-> TRUE, ret |-> TC_ACT_PIPE, event |-> None ]

\* process_packet after the counter update: Result<i32, ()> and the event it
\* committed; the `?` on emit_large_packet_event passes an Err on
process_packet(pkt, direction, reserve_ok, load_ok) ==
    IF pkt.len > LARGE_PACKET_THRESHOLD
    THEN LET e == emit_large_packet_event(pkt, pkt.len, reserve_ok, load_ok)
         IN IF e.ok THEN [ ok |-> TRUE, ret |-> TC_ACT_PIPE, event |-> e.event ]
            ELSE [ ok |-> FALSE, ret |-> 0, event |-> e.event ]
    ELSE [ ok |-> TRUE, ret |-> TC_ACT_PIPE, event |-> None ]

\* tc_ingress / tc_egress: match process_packet { Ok(ret) => ret, Err(_) => TC_ACT_PIPE }
tc_verdict(r) == IF r.ok THEN r.ret ELSE TC_ACT_PIPE

\* One run of tc_ingress (direction 0) or tc_egress (1) on a CPU: the counter
\* update when COUNTERS.get_ptr_mut gave a slot, the event, the verdict
TcClassifier ==
    /\ Len(tc_log) < MaxTcRuns
    /\ \E cpu \in CPUs, direction \in {0, 1}, len \in TcPacketLens, slot_ok \in BOOLEAN,
          load_ok \in BOOLEAN :
         LET pkt == Packet(len)
             reserve_ok == Len(EVENTS) < EventsCap
             r == process_packet(pkt, direction, reserve_ok, load_ok)
         IN /\ (len <= LARGE_PACKET_THRESHOLD \/ ~reserve_ok) => load_ok
            /\ COUNTERS' = IF slot_ok
                           THEN [COUNTERS EXCEPT ![direction + 1][cpu] =
                                    CountBytes(CountPacket(@, direction), direction, len)]
                           ELSE COUNTERS
            /\ EVENTS' = IF IsSome(r.event) THEN Append(EVENTS, Unwrap(r.event)) ELSE EVENTS
            /\ tc_log' = Append(tc_log, [ direction |-> direction, len |-> len,
                                          slot_ok |-> slot_ok,
                                          reserved |-> IsSome(r.event),
                                          load_ok |-> load_ok,
                                          verdict |-> tc_verdict(r) ])
    /\ UNCHANGED << cpu_busy, pkts, rd_pc, rd_copy, rd_get, snaps, fold_out, exceptTc >>

InitTc ==
    /\ CoreIdle
    /\ ToolsIdle

NextTc == TcClassifier

SpecTc == InitTc /\ [][NextTc]_vars

\* ------------------------------------------------------------------------
\* sennet-ebpf main.rs: the kfree_skb tracepoint
\* ------------------------------------------------------------------------
MaxDrops == 3                     \* runs of the kfree_skb program
DropRingCap == 2                  \* DropEvents the DROP_EVENTS ring has room for
\* ctx.read_at(20): Err (None), or the skb_drop_reason of the tracepoint
ReasonReads == { None, Some(0), Some(1), Some(2), Some(7) }
\* ctx.read_at(16): Err, IPv4 or IPv6
ProtocolReads == { None, Some(6), Some(2048) }

unwrap_or(o, d) == IF IsSome(o) THEN Unwrap(o) ELSE d

\* Mutant of try_kfree_skb: reason 1 is let through
try_kfree_skb_from_one(reason_read, protocol_read, now, reserve_ok) ==
    LET reason == unwrap_or(reason_read, 0)
    IN IF reason >= 1 /\ reserve_ok
       THEN Some([ timestamp_ns |-> now, reason |-> reason,
                   protocol |-> unwrap_or(protocol_read, 0), ifindex |-> 0 ])
       ELSE None

\* try_kfree_skb: Some(event) when it committed a DropEvent
try_kfree_skb(reason_read, protocol_read, now, reserve_ok) ==
    LET reason == unwrap_or(reason_read, 0)
    IN IF reason > 1 /\ reserve_ok
       THEN Some([ timestamp_ns |-> now, reason |-> reason,
                   protocol |-> unwrap_or(protocol_read, 0), ifindex |-> 0 ])
       ELSE None

\* Mutant of KfreeSkb: a committed drop is also counted in drop_count of the
\* ingress slot
KfreeSkbCounts ==
    /\ Len(kfree_log) < MaxDrops
    /\ \E reason_read \in ReasonReads, protocol_read \in ProtocolReads :
         LET e == try_kfree_skb(reason_read, protocol_read, Len(kfree_log),
                                Len(DROP_EVENTS) < DropRingCap)
         IN /\ DROP_EVENTS' = IF IsSome(e) THEN Append(DROP_EVENTS, Unwrap(e)) ELSE DROP_EVENTS
            /\ kfree_log' = Append(kfree_log, [ read |-> reason_read, committed |-> e ])
            /\ COUNTERS' = IF IsSome(e)
                           THEN [COUNTERS EXCEPT ![1][1].drop_count = @ + 1]
                           ELSE COUNTERS
    /\ UNCHANGED << daemonVars, identVars, loaderVars, lateVars, cpu_busy, pkts, rd_pc,
                    rd_copy, rd_get, snaps, fold_out, cfgVars, verVars, sigVars, ffVars,
                    tcVars, flowVars, traceVars >>

\* One run of the kfree_skb tracepoint program
KfreeSkb ==
    /\ Len(kfree_log) < MaxDrops
    /\ \E reason_read \in ReasonReads, protocol_read \in ProtocolReads :
         LET e == try_kfree_skb(reason_read, protocol_read, Len(kfree_log),
                                Len(DROP_EVENTS) < DropRingCap)
         IN /\ DROP_EVENTS' = IF IsSome(e) THEN Append(DROP_EVENTS, Unwrap(e)) ELSE DROP_EVENTS
            /\ kfree_log' = Append(kfree_log, [ read |-> reason_read, committed |-> e ])
    /\ UNCHANGED exceptDrop

InitDrops ==
    /\ CoreIdle
    /\ ToolsIdle

NextDrops == KfreeSkb

SpecDrops == InitDrops /\ [][NextDrops]_vars

\* ------------------------------------------------------------------------
\* The TCP kprobes tcp_connect, inet_csk_accept and tcp_close, and the FLOWS
\* map and FLOW_EVENTS ring they write (spec.md, 4.1 "TCP kprobes", the
\* failure policy inside probes, and 4.5 "Eviction")
\* ------------------------------------------------------------------------
MaxFlowSteps == 4        \* connects, accepts and closes on the host
FlowsCap == 1            \* entries the FLOWS LRU map has room for
FlowKeys == {1, 2}       \* the 5-tuples of the host's TCP connections

\* Mutant of flow_event_type_str: NEW and CLOSE are swapped
flow_event_type_str_swapped(event_type) ==
    CASE event_type = 3 -> "NEW"
      [] event_type = 2 -> "UPDATE"
      [] event_type = 1 -> "CLOSE"
      [] OTHER -> "UNKNOWN"

\* ebpf.rs flow_event_type_str
flow_event_type_str(event_type) ==
    CASE event_type = 1 -> "NEW"
      [] event_type = 2 -> "UPDATE"
      [] event_type = 3 -> "CLOSE"
      [] OTHER -> "UNKNOWN"

\* the kprobes that load_and_attach attached
KprobeAttached(p) == outcomes[p] = "attached"

\* the entry of key in the LRU map, None when it has none
LruLookup(map, key) ==
    LET hits == { i \in 1..Len(map) : map[i].key = key }
    IN IF hits = {} THEN None ELSE Some(map[CHOOSE i \in hits : TRUE])

\* the map after entry was written: an entry of the same key is replaced, the
\* least recently updated entry makes room when the map is full
LruInsert(map, entry) ==
    LET others == SelectSeq(map, LAMBDA e : e.key # entry.key)
        kept == IF Len(others) >= FlowsCap THEN Tail(others) ELSE others
    IN Append(kept, entry)

\* A FlowEvent; start is the start_time_ns of the FlowInfo it reports
FlowEventOf(event_type, entry, now) ==
    [ timestamp_ns |-> now, event_type |-> event_type, direction |-> entry.direction,
      key |-> entry.key, start |-> entry.start_time_ns ]

\* "On connect: build a FlowKey, create a FlowInfo with start-time, direction
\* = outbound, insert into the LRU flow map, and emit a NEW FlowEvent.  On
\* accept: same, direction = inbound."  The reservation in the ring may fail.
FlowOpened(probe, direction) ==
    /\ Len(flow_log) < MaxFlowSteps
    /\ \E key \in FlowKeys \ socks, reserve_ok \in BOOLEAN :
         /\ socks' = socks \cup {key}
         /\ IF KprobeAttached(probe)
            THEN LET entry == [ key |-> key, start_time_ns |-> ktime, state |-> 1,
                                direction |-> direction ]
                     ev == FlowEventOf(1, entry, ktime)
                 IN /\ FLOWS' = LruInsert(FLOWS, entry)
                    /\ FLOW_EVENTS' = IF reserve_ok THEN Append(FLOW_EVENTS, ev)
                                      ELSE FLOW_EVENTS
                    /\ flow_log' = Append(flow_log, [ probe |-> probe, key |-> key,
                                                      start |-> ktime, ran |-> TRUE,
                                                      committed |-> reserve_ok ])
            ELSE /\ reserve_ok
                 /\ flow_log' = Append(flow_log, [ probe |-> probe, key |-> key,
                                                   start |-> ktime, ran |-> FALSE,
                                                   committed |-> FALSE ])
                 /\ UNCHANGED << FLOWS, FLOW_EVENTS >>
    /\ ktime' = ktime + 1
    /\ UNCHANGED exceptFlows

TcpConnect == FlowOpened("tcp_connect", 1)

InetCskAccept == FlowOpened("inet_csk_accept", 2)

\* "On close: look up by key, emit CLOSE event, and mark state = closed (the
\* LRU will eventually evict)."  A failed lookup is silent.
TcpClose ==
    /\ Len(flow_log) < MaxFlowSteps
    /\ \E key \in socks, reserve_ok \in BOOLEAN :
         LET found == LruLookup(FLOWS, key)
         IN /\ socks' = socks \ {key}
            /\ IF KprobeAttached("tcp_close") /\ IsSome(found)
               THEN LET entry == Unwrap(found)
                    IN /\ FLOWS' = LruInsert(FLOWS, [entry EXCEPT !.state = 2])
                       /\ FLOW_EVENTS' = IF reserve_ok
                                         THEN Append(FLOW_EVENTS, FlowEventOf(3, entry, ktime))
                                         ELSE FLOW_EVENTS
                       /\ flow_log' = Append(flow_log, [ probe |-> "tcp_close", key |-> key,
                                                         start |-> entry.start_time_ns,
                                                         ran |-> TRUE,
                                                         committed |-> reserve_ok ])
               ELSE /\ reserve_ok
                    /\ flow_log' = Append(flow_log, [ probe |-> "tcp_close", key |-> key,
                                                      start |-> ktime,
                                                      ran |-> KprobeAttached("tcp_close"),
                                                      committed |-> FALSE ])
                    /\ UNCHANGED << FLOWS, FLOW_EVENTS >>
    /\ ktime' = ktime + 1
    /\ UNCHANGED exceptFlows

\* what load_and_attach may have left: every kprobe attached, inet_csk_accept
\* not attached, or tcp_close alone attached
KprobeOutcomes ==
    { [ p \in ProbeNames |-> IF p \in off THEN "attach_err" ELSE "attached" ] :
        off \in { {}, {"inet_csk_accept"}, {"tcp_connect", "inet_csk_accept"} } }

\* the agent has returned from load_and_attach; connections made before that
\* are open already
InitFlows ==
    /\ DaemonIdle
    /\ IdentIdle
    /\ CountersIdle
    /\ ld_pc = "returned"
    /\ ld_caller = "agent"
    /\ elf = GoodElf
    /\ ld_invalid = {}
    /\ bpf_load_called = TRUE
    /\ pin_dir = TRUE
    /\ pins = AllPins
    /\ pin_errs = {}
    /\ outcomes \in KprobeOutcomes
    /\ handle = [NoHandle EXCEPT !.status = "ok", !.drop_tracing_enabled = TRUE,
                                 !.nf_tracing_enabled = TRUE,
                                 !.flow_tracing_enabled = KprobeAttached("tcp_connect")]
    /\ probe_outcomes = {"attach_err", "attached"}
    /\ held = {"agent"}
    /\ probe_ops = {}
    /\ cmds = {[ cmd |-> "agent", result |-> "started" ]}
    /\ LateIdle
    /\ ConfigIdle /\ VersionsIdle /\ CryptoIdle /\ FilterIdle /\ TcIdle /\ DropIdle /\ TraceIdle
    /\ FLOWS = <<>>
    /\ FLOW_EVENTS = <<>>
    /\ socks \in { {}, {1} }
    /\ ktime = 0
    /\ flow_log = <<>>

NextFlows ==
    \/ TcpConnect
    \/ InetCskAccept
    \/ TcpClose

SpecFlows == InitFlows /\ [][NextFlows]_vars

\* ------------------------------------------------------------------------
\* trace.rs: sennet trace
\* ------------------------------------------------------------------------
MaxTraceSecs == 3        \* seconds the clock of the trace command is followed for

\* the flags of the command line, as strings of characters
FlagDst == << "-", "-", "d", "s", "t" >>
FlagSrc == << "-", "-", "s", "r", "c" >>
FlagProto == << "-", "-", "p", "r", "o", "t", "o" >>
FlagCount == << "-", "-", "c", "o", "u", "n", "t" >>
FlagC == << "-", "c" >>
FlagTimeout == << "-", "-", "t", "i", "m", "e", "o", "u", "t" >>
FlagT == << "-", "t" >>

\* str::split_once(':')
split_once(str) ==
    LET at == { i \in 1..Len(str) : str[i] = ":" }
    IN IF at = {} THEN None
       ELSE LET k == CHOOSE i \in at : \A j \in at : i <= j
            IN Some(<< SubSeq(str, 1, k - 1), SubSeq(str, k + 1, Len(str)) >>)

\* port.parse::<u16>().ok()
parse_u16(str) ==
    LET r == parse_u64(str)
    IN IF IsSome(r) /\ Unwrap(r) < 65536 THEN r ELSE None

\* --dst / --src: "ip:port" or "ip"; a port is written only with a ':'
WithAddress(filter, value, is_dst) ==
    LET parts == split_once(value)
        ip == IF IsSome(parts) THEN Unwrap(parts)[1] ELSE value
    IN IF is_dst
       THEN [filter EXCEPT !.dst_ip = Some(ip),
                           !.dst_port = IF IsSome(parts) THEN parse_u16(Unwrap(parts)[2])
                                        ELSE filter.dst_port]
       ELSE [filter EXCEPT !.src_ip = Some(ip),
                           !.src_port = IF IsSome(parts) THEN parse_u16(Unwrap(parts)[2])
                                        ELSE filter.src_port]

\* the while loop of TraceFilter::parse from args[i] on
RECURSIVE parse_from(_, _, _)
parse_from(args, i, filter) ==
    IF i > Len(args) THEN filter
    ELSE IF i + 1 > Len(args) THEN parse_from(args, i + 1, filter)
    ELSE LET flag == args[i]
             value == args[i + 1]
         IN CASE flag = FlagDst -> parse_from(args, i + 2, WithAddress(filter, value, TRUE))
              [] flag = FlagSrc -> parse_from(args, i + 2, WithAddress(filter, value, FALSE))
              [] flag = FlagProto ->
                   parse_from(args, i + 2, [filter EXCEPT !.protocol = Some(to_lowercase(value))])
              [] flag \in {FlagCount, FlagC} ->
                   parse_from(args, i + 2,
                              [filter EXCEPT !.count = unwrap_or(parse_u64(value), 20)])
              [] flag \in {FlagTimeout, FlagT} ->
                   parse_from(args, i + 2,
                              [filter EXCEPT !.timeout_secs = unwrap_or(parse_u64(value), 30)])
              [] OTHER -> parse_from(args, i + 1, filter)

\* TraceFilter::parse
parse(args) == parse_from(args, 1, NoFilter)

\* the command lines followed
TraceArgs ==
    { << FlagC, << "2" >>, FlagT, << "1" >> >>,
      << FlagProto, << "T", "C", "P" >>, FlagCount, << "3" >>, FlagTimeout, << "1" >> >>,
      << FlagProto, << "u", "d", "p" >>, FlagC, << "1" >>, FlagT, << "0" >> >>,
      << FlagDst, << "1", ":", "8" >>, FlagSrc, << "2" >>, FlagC, << "x" >>, FlagT, << "1" >> >>,
      << FlagT, << "1" >>, FlagProto >> }

\* match event.protocol { 6 => "TCP", 17 => "UDP", 1 => "ICMP", _ => "?" }
ProtoName(protocol) ==
    CASE protocol = 6 -> << "T", "C", "P" >>
      [] protocol = 17 -> << "U", "D", "P" >>
      [] protocol = 1 -> << "I", "C", "M", "P" >>
      [] OTHER -> << "?" >>

\* run: parse the arguments; run_linux_trace: return when the pin is missing,
\* else open the ring (None when from_pin or the conversion fails)
StartTrace ==
    /\ tr_pc = "idle"
    /\ \E args \in TraceArgs, open_ok \in BOOLEAN :
         /\ tr_filter' = parse(args)
         /\ IF "drop_events" \notin pins
            THEN /\ open_ok
                 /\ tr_pc' = "returned"
                 /\ drop_rb' = None
            ELSE /\ tr_pc' = "check"
                 /\ drop_rb' = IF open_ok THEN Some("drop_events") ELSE None
    /\ UNCHANGED << event_count, tr_elapsed, tr_printed, dropVars, exceptTrace >>

\* "Check limits" at the top of the loop
TraceCheck ==
    /\ tr_pc = "check"
    /\ tr_pc' = IF event_count >= tr_filter.count THEN "done"
                ELSE IF tr_elapsed > tr_filter.timeout_secs THEN "done"
                ELSE "poll"
    /\ UNCHANGED << tr_filter, drop_rb, event_count, tr_elapsed, tr_printed, dropVars,
                    exceptTrace >>

\* while let Some(item) = rb.next() { print it; event_count += 1; break at
\* filter.count }: one item, and the time printing it took
TraceNext ==
    /\ tr_pc = "poll"
    /\ IsSome(drop_rb)
    /\ DROP_EVENTS # <<>>
    /\ \E took \in {0, 1} :
         /\ tr_elapsed + took <= MaxTraceSecs
         /\ tr_elapsed' = tr_elapsed + took
    /\ LET event == Head(DROP_EVENTS)
       IN tr_printed' = Append(tr_printed, [ elapsed |-> tr_elapsed, reason |-> event.reason,
                                             proto |-> ProtoName(event.protocol) ])
    /\ DROP_EVENTS' = Tail(DROP_EVENTS)
    /\ event_count' = event_count + 1
    /\ tr_pc' = IF event_count' >= tr_filter.count THEN "sleep" ELSE "poll"
    /\ UNCHANGED << tr_filter, drop_rb, kfree_log, exceptTrace >>

\* the ring is empty, or there is no ring: on to the sleep
TraceDrained ==
    /\ tr_pc = "poll"
    /\ ~IsSome(drop_rb) \/ DROP_EVENTS = <<>>
    /\ tr_pc' = "sleep"
    /\ UNCHANGED << tr_filter, drop_rb, event_count, tr_elapsed, tr_printed, dropVars,
                    exceptTrace >>

\* std::thread::sleep(Duration::from_millis(50))
TraceSleep ==
    /\ tr_pc = "sleep"
    /\ \E took \in {0, 1} :
         /\ tr_elapsed + took <= MaxTraceSecs
         /\ tr_elapsed' = tr_elapsed + took
    /\ tr_pc' = "check"
    /\ UNCHANGED << tr_filter, drop_rb, event_count, tr_printed, dropVars, exceptTrace >>

\* the agent runs with its maps pinned, or no agent ran
InitTrace ==
    /\ \/ CoreIdle
       \/ /\ DaemonIdle
          /\ IdentIdle
          /\ CountersIdle
          /\ ld_pc = "returned"
          /\ ld_caller = "agent"
          /\ elf = GoodElf
          /\ ld_invalid = {}
          /\ bpf_load_called = TRUE
          /\ pin_dir = TRUE
          /\ pins = AllPins
          /\ pin_errs = {}
          /\ outcomes = [ p \in ProbeNames |-> "attached" ]
          /\ handle = [NoHandle EXCEPT !.status = "ok", !.drop_tracing_enabled = TRUE,
                                       !.nf_tracing_enabled = TRUE,
                                       !.flow_tracing_enabled = TRUE]
          /\ probe_outcomes = {"attached"}
          /\ held = {"agent"}
          /\ probe_ops = {}
          /\ cmds = {[ cmd |-> "agent", result |-> "started" ]}
    /\ ToolsIdle

\* the kfree_skb program runs while the agent holds it
TraceKfreeSkb ==
    /\ outcomes["kfree_skb"] = "attached"
    /\ KfreeSkb

NextTrace ==
    \/ StartTrace
    \/ TraceCheck
    \/ TraceNext
    \/ TraceDrained
    \/ TraceSleep
    \/ TraceKfreeSkb

SpecTrace == InitTrace /\ [][NextTrace]_vars

\* ------------------------------------------------------------------------
\* upgrade.rs: the steps of Updater::upgrade on the file system.  Two callers
\* share binary_path (current_exe) and the temp path /tmp/sennet_new: the
\* heartbeat task of the agent (handle_command) and `sennet upgrade` (main)
\* ------------------------------------------------------------------------
Published == "sha_new"                   \* the SHA-256 in checksums.txt
DownloadBodies == { "sha_new", "sha_bad" }  \* what the download may deliver
Empty == "empty"                         \* a file of length 0

UpSet(f, p, v) == [f EXCEPT ![p] = v]
UpReturn(p, ok) == up_pc' = UpSet(up_pc, p, IF ok THEN "done_ok" ELSE "done_err")

\* main, "upgrade": updater.check_upgrade()? before updater.upgrade()?
UpCheck(p) ==
    /\ up_pc[p] = "check"
    /\ \E latest \in LatestVersions :
         IF latest = None THEN UpReturn(p, FALSE)
         ELSE IF ~needs_upgrade(CURRENT_VERSION, Unwrap(latest)) THEN UpReturn(p, TRUE)
         ELSE up_pc' = UpSet(up_pc, p, "start")
    /\ UNCHANGED << up_fd, up_verified, up_replaced, up_restarted, fs_temp, fs_binary,
                    inodes, exceptUpgrade >>

\* upgrade, step 1: fetch_latest_version and needs_upgrade
UpStart(p) ==
    /\ up_pc[p] = "start"
    /\ \E latest \in LatestVersions :
         IF latest = None THEN UpReturn(p, FALSE)
         ELSE IF ~needs_upgrade(CURRENT_VERSION, Unwrap(latest)) THEN UpReturn(p, TRUE)
         ELSE up_pc' = UpSet(up_pc, p, "create")
    /\ UNCHANGED << up_fd, up_verified, up_replaced, up_restarted, fs_temp, fs_binary,
                    inodes, exceptUpgrade >>

\* download_binary: ureq::get(&url).call()?, then fs::File::create(&temp_path)?
\* which truncates the file the path names or makes a new one
UpCreate(p) ==
    /\ up_pc[p] = "create"
    /\ \E get_ok \in BOOLEAN, create_ok \in BOOLEAN :
         IF ~get_ok \/ ~create_ok
         THEN /\ get_ok \/ create_ok
              /\ UpReturn(p, FALSE)
              /\ UNCHANGED << up_fd, fs_temp, inodes >>
         ELSE /\ up_pc' = UpSet(up_pc, p, "write")
              /\ IF IsSome(fs_temp)
                 THEN /\ inodes' = [inodes EXCEPT ![Unwrap(fs_temp)] = Empty]
                      /\ up_fd' = UpSet(up_fd, p, fs_temp)
                      /\ UNCHANGED fs_temp
                 ELSE /\ inodes' = Append(inodes, Empty)
                      /\ fs_temp' = Some(Len(inodes) + 1)
                      /\ up_fd' = UpSet(up_fd, p, Some(Len(inodes) + 1))
    /\ UNCHANGED << up_verified, up_replaced, up_restarted, fs_binary, exceptUpgrade >>

\* download_binary: reader.read_to_end(&mut buffer)?, file.write_all(&buffer)?
\* through the open handle, whatever path names its inode by now
UpWrite(p) ==
    /\ up_pc[p] = "write"
    /\ \E read_ok \in BOOLEAN, body \in DownloadBodies :
         IF ~read_ok
         THEN /\ body = Published
              /\ UpReturn(p, FALSE)
              /\ UNCHANGED inodes
         ELSE /\ up_pc' = UpSet(up_pc, p, "chmod")
              /\ inodes' = [inodes EXCEPT ![Unwrap(up_fd[p])] = body]
    /\ UNCHANGED << up_fd, up_verified, up_replaced, up_restarted, fs_temp, fs_binary,
                    exceptUpgrade >>

\* download_binary: fs::metadata(&temp_path)?, fs::set_permissions, by path
UpChmod(p) ==
    /\ up_pc[p] = "chmod"
    /\ IF IsSome(fs_temp) THEN up_pc' = UpSet(up_pc, p, "verify") ELSE UpReturn(p, FALSE)
    /\ UNCHANGED << up_fd, up_verified, up_replaced, up_restarted, fs_temp, fs_binary,
                    inodes, exceptUpgrade >>

\* Mutant of UpVerify: a mismatch of the checksum is not an error
UpVerifyAnyHash(p) ==
    /\ up_pc[p] = "verify"
    /\ \E expected \in Checksums :
         IF expected = None \/ ~IsSome(fs_temp)
         THEN /\ UpReturn(p, FALSE)
              /\ UNCHANGED up_verified
         ELSE /\ up_pc' = UpSet(up_pc, p, "replace")
              /\ up_verified' = UpSet(up_verified, p, TRUE)
    /\ UNCHANGED << up_fd, up_replaced, up_restarted, fs_temp, fs_binary, inodes,
                    exceptUpgrade >>

\* upgrade, step 3: fetch_checksum(&latest)?, then verify_checksum: fs::read of
\* the temp path and the comparison of its SHA-256 with the expected one
UpVerify(p) ==
    /\ up_pc[p] = "verify"
    /\ \E expected \in Checksums :
         IF expected = None \/ ~IsSome(fs_temp)
         THEN /\ UpReturn(p, FALSE)
              /\ UNCHANGED up_verified
         ELSE IF inodes[Unwrap(fs_temp)] # Unwrap(expected)
         THEN /\ UpReturn(p, FALSE)
              /\ UNCHANGED up_verified
         ELSE /\ up_pc' = UpSet(up_pc, p, "replace")
              /\ up_verified' = UpSet(up_verified, p, TRUE)
    /\ UNCHANGED << up_fd, up_replaced, up_restarted, fs_temp, fs_binary, inodes,
                    exceptUpgrade >>

\* upgrade, step 4: atomic_replace: fs::rename(new_binary, &self.binary_path)?
UpReplace(p) ==
    /\ up_pc[p] = "replace"
    /\ \E rename_ok \in BOOLEAN :
         IF ~rename_ok \/ ~IsSome(fs_temp)
         THEN /\ rename_ok \/ IsSome(fs_temp)
              /\ UpReturn(p, FALSE)
              /\ UNCHANGED << up_replaced, fs_temp, fs_binary >>
         ELSE /\ up_pc' = UpSet(up_pc, p, "restart")
              /\ fs_binary' = Unwrap(fs_temp)
              /\ fs_temp' = None
              /\ up_replaced' = UpSet(up_replaced, p, TRUE)
    /\ UNCHANGED << up_fd, up_verified, up_restarted, inodes, exceptUpgrade >>

\* upgrade, step 5: trigger_restart, Ok(()) whatever systemctl does
UpRestart(p) ==
    /\ up_pc[p] = "restart"
    /\ up_restarted' = UpSet(up_restarted, p, TRUE)
    /\ UpReturn(p, TRUE)
    /\ UNCHANGED << up_fd, up_verified, up_replaced, fs_temp, fs_binary, inodes,
                    exceptUpgrade >>

\* the agent got an UPGRADE command, `sennet upgrade` was started, or both; a
\* temp file of an earlier, failed upgrade may be there
InitUpgrade ==
    /\ BaseIdle
    /\ ConfigIdle /\ VersionsIdle /\ CryptoIdle /\ FilterIdle /\ TcIdle /\ DropIdle
    /\ FlowsIdle /\ TraceIdle
    /\ ReportIdle /\ K8sIdle
    /\ up_pc \in { [ p \in Updaters |-> IF p \in run THEN (IF p = "cli" THEN "check" ELSE "start")
                                        ELSE "absent" ] :
                    run \in (SUBSET Updaters) \ {{}} }
    /\ up_fd = [ p \in Updaters |-> None ]
    /\ up_verified = [ p \in Updaters |-> FALSE ]
    /\ up_replaced = [ p \in Updaters |-> FALSE ]
    /\ up_restarted = [ p \in Updaters |-> FALSE ]
    /\ \E stale \in { None, Some(Empty), Some("sha_bad") } :
         /\ fs_temp = IF IsSome(stale) THEN Some(2) ELSE None
         /\ inodes = IF IsSome(stale) THEN << OldBinary, Unwrap(stale) >> ELSE << OldBinary >>
    /\ fs_binary = 1

NextUpgrade ==
    \E p \in Updaters :
        \/ UpCheck(p)
        \/ UpStart(p)
        \/ UpCreate(p)
        \/ UpWrite(p)
        \/ UpChmod(p)
        \/ UpVerify(p)
        \/ UpReplace(p)
        \/ UpRestart(p)

SpecUpgrade == InitUpgrade /\ [][NextUpgrade]_vars

\* ------------------------------------------------------------------------
\* identity.rs / heartbeat.rs: the version the agent reports, over restarts
\* and upgrades of the binary
\* ------------------------------------------------------------------------
MaxSent == 3                 \* heartbeats followed
Releases == {1, 2, 3}        \* the releases of the agent, by CARGO_PKG_VERSION

\* IdentityManager::load_or_create, the version field: load_state's when
\* state.json exists, else create_new_state's env!("CARGO_PKG_VERSION"),
\* saved; update_version has no caller
load_or_create_version(state_json, build) ==
    IF IsSome(state_json)
    THEN [ version |-> Unwrap(state_json), file |-> state_json ]
    ELSE [ version |-> build, file |-> Some(build) ]

\* the agent starts (or is exec'ed): main calls load_or_create
ReportStart ==
    /\ rp_running = None
    /\ rp_running' = Some(rp_installed)
    /\ LET id == load_or_create_version(rp_state, rp_installed)
       IN /\ rp_identity' = Some(id.version)
          /\ rp_state' = id.file
    /\ UNCHANGED << rp_installed, rp_sent, exceptReport >>

\* send_heartbeat: current_version: self.identity.version().to_string()
ReportHeartbeat ==
    /\ IsSome(rp_running)
    /\ Len(rp_sent) < MaxSent
    /\ rp_sent' = Append(rp_sent, [ current_version |-> Unwrap(rp_identity),
                                    build |-> Unwrap(rp_running) ])
    /\ UNCHANGED << rp_installed, rp_running, rp_state, rp_identity, exceptReport >>

\* handle_command, CommandUpgrade: upgrade() replaced the binary by a newer
\* release and exec() replaces the process image
ReportUpgrade ==
    /\ IsSome(rp_running)
    /\ \E newer \in Releases :
         /\ newer > rp_installed
         /\ rp_installed' = newer
    /\ rp_running' = None
    /\ rp_identity' = None
    /\ UNCHANGED << rp_state, rp_sent, exceptReport >>

\* the service is stopped
ReportStop ==
    /\ IsSome(rp_running)
    /\ rp_running' = None
    /\ rp_identity' = None
    /\ UNCHANGED << rp_installed, rp_state, rp_sent, exceptReport >>

InitReport ==
    /\ BaseIdle
    /\ ConfigIdle /\ VersionsIdle /\ CryptoIdle /\ FilterIdle /\ TcIdle /\ DropIdle
    /\ FlowsIdle /\ TraceIdle
    /\ UpgradeIdle /\ K8sIdle
    /\ rp_installed \in Releases
    /\ rp_running = None
    /\ rp_state \in { None } \cup { Some(v) : v \in { r \in Releases : r <= rp_installed } }
    /\ rp_identity = None
    /\ rp_sent = <<>>

NextReport ==
    \/ ReportStart
    \/ ReportHeartbeat
    \/ ReportUpgrade
    \/ ReportStop

SpecReport == InitReport /\ [][NextReport]_vars

\* ------------------------------------------------------------------------
\* drop_count: the classifiers, the kfree_skb program and collect_metrics on
\* one host
\* ------------------------------------------------------------------------
\* an IPv4 skb is freed with reason NO_SOCKET and the kfree_skb program
\* commits its DropEvent, while the ring has room
DropSeen ==
    /\ Len(DROP_EVENTS) < DropRingCap
    /\ KfreeSkb
    /\ Len(DROP_EVENTS') > Len(DROP_EVENTS)
    /\ DROP_EVENTS'[Len(DROP_EVENTS')].reason = 2
    /\ DROP_EVENTS'[Len(DROP_EVENTS')].protocol = 2048

\* a classifier counts a packet of ordinary size in the slot of its CPU
PacketSeen ==
    /\ TcClassifier
    /\ tc_log'[Len(tc_log')].slot_ok
    /\ tc_log'[Len(tc_log')].len <= LARGE_PACKET_THRESHOLD

NextDropCount ==
    \/ PacketSeen
    \/ OpenPinnedMap
    \/ GetSlot
    \/ CopyCpu
    \/ Snapshot
    \/ DropSeen

SpecDropCount == InitCounters /\ [][NextDropCount]_vars

\* ------------------------------------------------------------------------
\* Claims
\* ------------------------------------------------------------------------
InAttempt == hb_pc \in {"try", "backoff_sleep", "handle", "failed"}

\* C1: in run, every attempt after the first starts right after a sleep of
\* exactly heartbeat_interval_secs, whether the attempt before it succeeded or
\* failed, and an attempt starts only when the task is not inside an attempt.
C1_OuterIntervalKept ==
    /\ [](InAttempt =>
            slept = IF ticks = 1 THEN None
                    ELSE Some(1000 * config.heartbeat_interval_secs))
    /\ [][ticks' # ticks => (ticks' = ticks + 1 /\ ~InAttempt /\ hb_pc' = "try")]_vars

\* a second attempt is running, the first one had failed
C1_Witness ==
    /\ hb_pc = "try"
    /\ ticks = 2
    /\ last_result = "err"
    /\ slept = Some(1000 * config.heartbeat_interval_secs)

\* C2: inside one attempt the first interval is 1 s, no delay between two
\* tries exceeds the 60 s cap, no try starts after 300 s, and the attempt is
\* then abandoned with an error.
C2_BackoffWithinCapAndBudget ==
    /\ (hb_pc = "try" /\ elapsed = 0 => current_interval = InitialIntervalMs)
    /\ (hb_pc = "backoff_sleep" => delay <= MaxIntervalMs)
    /\ (hb_pc = "try" => elapsed <= MaxElapsedMs)
    /\ (hb_pc = "failed" => last_result = "err")

\* C3: a failed attempt is logged and followed by the sleep of the loop; run
\* never returns, and from the sleep the next tick is possible.
C3_RunSurvivesFailures ==
    /\ [](hb_pc # "returned")
    /\ [](hb_pc = "sleep" /\ ticks < MaxTicks => ENABLED Tick)
    /\ [][(hb_pc = "failed" /\ hb_pc' # "failed" => hb_pc' = AtAwait)]_vars

\* an attempt that follows a failed one got a response
C3_Witness ==
    /\ ticks = 2
    /\ last_result = "ok"
    /\ hb_pc = "handle"
    /\ slept # None

\* C4: on UPGRADE the updater is invoked; the image is re-executed only after
\* Updater::upgrade returned Ok; when Updater::new or upgrade fails, there is
\* no re-exec and the loop goes to its sleep.
C4_ExecOnlyAfterUpgradeOk ==
    /\ (act.command = "CommandUpgrade" => act.updater # "none")
    /\ (act.exec # "none" => act.command = "CommandUpgrade" /\ act.updater = "ok")
    /\ (hb_pc = "execed" => act.updater = "ok" /\ act.exec = "ok")
    /\ (act.updater \in {"new_failed", "err"} => hb_pc = AtAwait)

\* the upgrade replaced the binary and the process re-executed itself
C4_Witness ==
    /\ hb_pc = "execed"
    /\ act.updater = "ok"
    /\ act.replaced

\* C5: a reply whose command is an unknown string, or is missing, gives a
\* response with command NOOP.
C5_UnknownCommandIsNoop ==
    (IsSome(reply) /\ Unwrap(reply).kind = "json"
        /\ Unwrap(reply).command \notin KnownWireNames)
    => (hb_pc = "handle" /\ response.ok /\ response.command = "CommandNoop")

\* C6: a reply that cannot be parsed counts as a NOOP response of that tick:
\* it is not retried inside the backoff and no other command is dispatched.
C6_ParseErrorIsNoop ==
    parse_failed =>
        /\ hb_pc \notin {"backoff_sleep", "try", "failed"}
        /\ (hb_pc = "handle" => response.command = "CommandNoop")

\* C7: UPGRADE with an empty latestVersion is treated as NOOP: the updater is
\* not invoked and there is no re-exec.
C7_EmptyVersionUpgradeRejected ==
    (act.command = "CommandUpgrade" /\ act.latest_version = "")
    => (act.updater = "none" /\ act.exec = "none" /\ hb_pc # "execed")

\* C8: once RECONFIGURE was handled, the config in use is the one on disk
\* (reloaded under the process environment) if that validates, else the old one.
C8_ReconfigureReloads ==
    act.command = "CommandReconfigure" =>
        \E e \in Envs :
            LET r == load(config_file, e)
            IN IsSome(r) => config = Unwrap(r)

\* C9 as stated: no attempt starts once the shutdown signal has arrived.
C9_NoAttemptAfterSignal ==
    [][(main_pc \in {"signalled", "stopped", "exit_ok"} => ticks' = ticks)]_vars

\* C9, amended: the task is cancelled only at its await (never inside an
\* attempt), an attempt in flight goes on to handle its response or to its Err
\* arm before the task ends, the process does not exit before that, and no
\* attempt starts after abort() was called.
C9_CancelledOnlyBetweenTicks ==
    /\ [][(hb_pc' = "cancelled" /\ hb_pc # "cancelled" =>
            \/ Suspended(hb_pc)
            \/ hb_pc = "failed"
            \/ hb_pc = "handle" /\ act'.command = response.command)]_vars
    /\ [][(aborted => ticks' = ticks)]_vars
    /\ [](main_pc = "exit_ok" => ~InAttempt)

\* abort() came while an attempt was in flight; its response was handled
\* before the task was cancelled
C9_Witness ==
    /\ abort_at = "polling"
    /\ hb_pc = "cancelled"
    /\ act.command # "none"

\* C10 as stated: a config, identity or loader error at start-up is fatal.
C10_StartupErrorsFatal ==
    (startup_err # "none" \/ ebpf = "failed")
    => (main_pc = "exit_err" /\ exit_code = 1 /\ hb_pc = "idle" /\ ticks = 0)

\* C10, amended: a config or identity error is fatal (exit status 1, no
\* heartbeat task, nothing sent), so the task only ever runs with a validated
\* config and a readable state file; a loader error is not fatal.
C10_ConfigIdentityErrorsFatal ==
    /\ (startup_err # "none" =>
            main_pc = "exit_err" /\ exit_code = 1 /\ hb_pc = "idle" /\ ticks = 0)
    /\ (main_pc = "exit_err" => startup_err \in {"config", "identity"})
    /\ (hb_pc # "idle" => validate(config) /\ state_file = "valid")
    /\ (ebpf = "failed" => main_pc # "exit_err")

\* the state file is corrupt: the process exited with status 1, nothing sent
C10_Witness ==
    /\ startup_err = "identity"
    /\ state_file = "corrupt"
    /\ exit_code = 1
    /\ hb_pc = "idle"

\* Ok results among the first k calls of load_or_create
OkBoots == { i \in 1..Len(id_boots) : id_boots[i].ok }

C13_FirstWriteAtomic ==
    id_file.kind # "partial"

AtLeast(a, b) == \A f \in CounterFields : a[f] >= b[f]

\* C14 as stated: of any two snapshots of one running agent, the later one is
\* at least the earlier one in every counter field.
C14_SnapshotsMonotonic ==
    \A i, j \in 1..Len(snaps) : i < j => AtLeast(snaps[j].m, snaps[i].m)

\* C14, amended: the later snapshot is at least the earlier one in the fields
\* of every slot that both snapshots read (rx_* and drop_count from slot 0,
\* tx_* from slot 1), under any interleaving of the classifiers' stores with
\* the per-CPU copies; the fields of a slot that could not be read are zero.
C14_MonotonicWhenRead ==
    /\ \A i, j \in 1..Len(snaps) :
          i < j =>
            /\ (snaps[i].read[1] /\ snaps[j].read[1] =>
                    \A f \in {"rx_packets", "rx_bytes", "drop_count"} :
                        snaps[j].m[f] >= snaps[i].m[f])
            /\ (snaps[i].read[2] /\ snaps[j].read[2] =>
                    \A f \in {"tx_packets", "tx_bytes"} :
                        snaps[j].m[f] >= snaps[i].m[f])
    /\ \A i \in 1..Len(snaps) :
          /\ (~snaps[i].read[1] =>
                \A f \in {"rx_packets", "rx_bytes", "drop_count"} : snaps[i].m[f] = 0)
          /\ (~snaps[i].read[2] =>
                \A f \in {"tx_packets", "tx_bytes"} : snaps[i].m[f] = 0)

\* two complete snapshots, packets counted between them, one of them caught
\* between its two stores by the second snapshot
C14_Witness ==
    /\ Len(snaps) = 2
    /\ snaps[1].read = << TRUE, TRUE >>
    /\ snaps[2].read = << TRUE, TRUE >>
    /\ snaps[1].m.rx_packets = 1
    /\ snaps[2].m.rx_packets = 2
    /\ snaps[2].m.rx_bytes < 2 * 60

\* the sum of field f of slot over the CPUs of S
RECURSIVE Sigma(_, _, _)
Sigma(slot, f, S) ==
    IF S = {} THEN 0
    ELSE LET i == CHOOSE x \in S : TRUE
         IN COUNTERS[slot][i][f] + Sigma(slot, f, S \ {i})

PerFieldSums == [ rx_packets |-> Sigma(1, "rx_packets", CPUs),
                  rx_bytes |-> Sigma(1, "rx_bytes", CPUs),
                  tx_packets |-> Sigma(2, "tx_packets", CPUs),
                  tx_bytes |-> Sigma(2, "tx_bytes", CPUs),
                  drop_count |-> Sigma(1, "drop_count", CPUs) ]

\* C15: whatever the per-CPU contents of the two slots, a snapshot whose two
\* lookups succeeded has rx_packets, rx_bytes and drop_count equal to the sums
\* over all CPUs of slot 0 and tx_packets and tx_bytes equal to the sums over
\* all CPUs of slot 1, from EbpfManager::read_counters and from
\* read_ebpf_counters alike.
C15_FoldIsPerFieldSum ==
    /\ (fold_out.live # None /\ Unwrap(fold_out.live).read = << TRUE, TRUE >> =>
            Unwrap(fold_out.live).res = Some(PerFieldSums))
    /\ (fold_out.pinned # None /\ Unwrap(fold_out.pinned).read = << TRUE, TRUE >> =>
            Unwrap(fold_out.pinned).res = Some(PerFieldSums))

\* both aggregators folded an array in which every field of every cell is set
C15_Witness ==
    /\ \A slot \in 1..2, i \in CPUs, f \in CounterFields : COUNTERS[slot][i][f] > 0
    /\ COUNTERS[1] # COUNTERS[2]
    /\ fold_out.live # None
    /\ fold_out.pinned # None
    /\ Unwrap(fold_out.live).read = << TRUE, TRUE >>
    /\ Unwrap(fold_out.pinned).read = << TRUE, TRUE >>

\* C16: load_and_attach fails when the TC ingress or the TC egress program
\* cannot be loaded or attached, and returns Ok once both are attached,
\* whatever happened to kfree_skb, nf_hook_slow and the TCP kprobes.
TcAttached == outcomes["tc_ingress"] = "attached" /\ outcomes["tc_egress"] = "attached"
TcFailed ==
    \E p \in {"tc_ingress", "tc_egress"} : outcomes[p] \notin {"not_tried", "attached"}
C16_OnlyTcIsMandatory ==
    ld_pc = "returned" =>
        /\ TcFailed => handle.status \in {"err", "panic"}
        /\ TcAttached => handle.status = "ok"
C16_Witness ==
    /\ ld_pc = "returned"
    /\ handle.status = "ok"
    /\ \A p \in OptionalProbes : outcomes[p] \in AllOutcomes \ {"attached"}

\* C17: on a successful return each capability flag is true exactly when its
\* probes attached: drop tracing with kfree_skb, netfilter tracing with
\* nf_hook_slow, flow tracking with tcp_connect, inet_csk_accept and tcp_close.
C17_FlagsMatchProbes ==
    ld_pc = "returned" /\ handle.status = "ok" =>
        /\ handle.drop_tracing_enabled <=> outcomes["kfree_skb"] = "attached"
        /\ handle.nf_tracing_enabled <=> outcomes["nf_hook_slow"] = "attached"
        /\ handle.flow_tracing_enabled <=>
               \A p \in {"tcp_connect", "inet_csk_accept", "tcp_close"} :
                   outcomes[p] = "attached"

\* C18: a run that finds pins of an earlier run (or whose pins fail) is not
\* failed by them: once a pin was refused, the run returns Ok when both TC
\* programs attached, and ends otherwise only by a TC program failing.
C18_PinErrorsIgnored ==
    ld_pc = "returned" /\ pin_errs # {} =>
        IF TcAttached THEN handle.status = "ok" ELSE TcFailed
C18_Witness ==
    /\ ld_pc = "returned"
    /\ handle.status = "ok"
    /\ pins = AllPins
    /\ pin_errs = AllPins

\* C19: top, trace and flows only read pinned maps: every load, attach and
\* detach of a probe is made by the agent.
C19_SubcommandsOnlyRead == \A e \in probe_ops : e.proc = "agent"

\* C20: an object whose header has e_ehsize # 64, e_shentsize # 64, e_shoff
\* past the end of the file or not 8-aligned, or e_machine # 247 is rejected
\* without being handed to Bpf::load.
HeaderBad(e) ==
    \/ e.e_ehsize # 64
    \/ e.e_shentsize # 64
    \/ e.e_shoff > e.len
    \/ e.e_shoff % 8 # 0
    \/ e.e_machine # 247
C20_BadHeaderRejected ==
    HeaderBad(elf) =>
        /\ ~bpf_load_called
        /\ ld_pc = "returned" => handle.status = "err"

\* C27: every Config that Config::load or Config::load_from_file returns has a
\* non-empty api_key starting with sk_ and a non-empty server_url starting
\* with http:// or https://, these being the values after the environment
\* overrides; an input whose values after the overrides break one of these
\* gives an error.
KeyAfterEnv == IF IsSome(cfg_env.api_key) THEN Unwrap(cfg_env.api_key) ELSE cfg_file.api_key
UrlAfterEnv ==
    IF IsSome(cfg_env.server_url) THEN Unwrap(cfg_env.server_url) ELSE cfg_file.server_url
KeyIsValid(k) == Len(k) >= 3 /\ k[1] = "s" /\ k[2] = "k" /\ k[3] = "_"
UrlIsValid(u) ==
    /\ Len(u) >= 7
    /\ u[1] = "h" /\ u[2] = "t" /\ u[3] = "t" /\ u[4] = "p"
    /\ \/ u[5] = ":" /\ u[6] = "/" /\ u[7] = "/"
       \/ Len(u) >= 8 /\ u[5] = "s" /\ u[6] = ":" /\ u[7] = "/" /\ u[8] = "/"
C27_LoadedConfigIsValid ==
    /\ IsSome(cfg_out.result) =>
         /\ KeyIsValid(Unwrap(cfg_out.result).api_key)
         /\ UrlIsValid(Unwrap(cfg_out.result).server_url)
    /\ cfg_out.via = "load_from_file" /\ cfg_file.parse = "ok"
       /\ ~(KeyIsValid(KeyAfterEnv) /\ UrlIsValid(UrlAfterEnv))
           => cfg_out.result = None
C27_Witness ==
    /\ cfg_out.via = "load_from_file"
    /\ cfg_out.result = None
    /\ cfg_file.parse = "ok"
    /\ KeyIsValid(cfg_file.api_key)
    /\ UrlIsValid(cfg_file.server_url)
    /\ IsSome(cfg_env.api_key)

\* C28: when a config file is loaded, each of SENNET_API_KEY,
\* SENNET_SERVER_URL, SENNET_LOG_LEVEL, SENNET_INTERFACE and
\* SENNET_HEARTBEAT_INTERVAL that is set replaces its field of the file, and a
\* field whose variable is unset keeps the file's value.
C28_EnvOverridesEachField ==
    cfg_out.via = "load_from_file" /\ IsSome(cfg_out.result) =>
        LET c == Unwrap(cfg_out.result)
            secs == IF IsSome(cfg_env.heartbeat_interval)
                    THEN parse_u64(Unwrap(cfg_env.heartbeat_interval)) ELSE None
        IN /\ c.api_key = KeyAfterEnv
           /\ c.server_url = UrlAfterEnv
           /\ c.log_level = IF IsSome(cfg_env.log_level) THEN Unwrap(cfg_env.log_level)
                            ELSE cfg_file.log_level
           /\ c.interface = IF IsSome(cfg_env.interface) THEN cfg_env.interface
                            ELSE cfg_file.interface
           /\ c.heartbeat_interval_secs = IF IsSome(secs) THEN Unwrap(secs)
                                          ELSE cfg_file.heartbeat_interval_secs

\* C29: needs_upgrade is the strict part of the component-wise total order on
\* dotted numeric versions: false on equal versions, never true in both
\* directions, true in one direction for different versions, transitive, and
\* true from a version to any version that extends it by more components.
ExtendedBy(a, b) == Len(a) < Len(b) /\ SubSeq(b, 1, Len(a)) = a
\* a is below b component by component: at the first place where they differ
\* a is smaller, or b extends a
ComponentwiseLess(a, b) ==
    \/ ExtendedBy(a, b)
    \/ \E i \in 1..Len(a) :
         /\ i <= Len(b)
         /\ a[i] < b[i]
         /\ \A j \in 1..(i - 1) : a[j] = b[j]
C29_NeedsUpgradeIsStrictTotalOrder ==
    IsSome(ver_out) =>
        LET fwd == Unwrap(ver_out).fwd
            bwd == Unwrap(ver_out).bwd
        IN /\ ver_current = ver_latest => ~fwd
           /\ ~(fwd /\ bwd)
           /\ ver_current # ver_latest => (fwd \/ bwd)
           /\ \A c \in Versions :
                fwd /\ needs_upgrade(ver_latest, c) => needs_upgrade(ver_current, c)
           /\ ExtendedBy(ver_current, ver_latest) => fwd
           /\ fwd <=> ComponentwiseLess(ver_current, ver_latest)
C29_Witness ==
    /\ IsSome(ver_out)
    /\ ExtendedBy(ver_current, ver_latest)
    /\ Unwrap(ver_out).fwd
    /\ ~Unwrap(ver_out).bwd

\* C30 (as stated): verify_signature accepts the signature sign_request made
\* from the same secret, timestamp and body, and rejects one made from a
\* different secret, a different timestamp or a different body.
C30_VerifyRejectsAnyDifference ==
    IsSome(sig_out) => (Unwrap(sig_out).valid <=> sig_verifier = sig_signer)

\* C30 (amended): as above, except that secrets which differ only in trailing
\* NUL characters are the same HMAC key and verify each other's signatures.
RECURSIVE StripNul(_)
StripNul(secret) ==
    IF secret # <<>> /\ secret[Len(secret)] = 0
    THEN StripNul(SubSeq(secret, 1, Len(secret) - 1))
    ELSE secret
C30_VerifyRejectsTampering ==
    IsSome(sig_out) =>
        (Unwrap(sig_out).valid <=>
            /\ sig_verifier.t = sig_signer.t
            /\ sig_verifier.body = sig_signer.body
            /\ StripNul(sig_verifier.secret) = StripNul(sig_signer.secret))
C30_Witness ==
    /\ IsSome(sig_out)
    /\ ~Unwrap(sig_out).valid
    /\ sig_verifier.secret = sig_signer.secret
    /\ sig_verifier.body = sig_signer.body
    /\ sig_verifier.t # sig_signer.t

\* C26: filtering the flows by pid P and then by name substring S leaves the
\* same set as filtering by S and then by P, and that set is the flows whose
\* pid is P and whose comm contains S when case is ignored.
SameLetter(a, b) == a = b \/ LowerChar(a) = b \/ a = LowerChar(b)
\* S occurs in the name held by comm (the bytes before its first NUL)
NameContains(comm, S) ==
    \E off \in 0..(Len(comm) - Len(S)) :
        /\ \A j \in 1..Len(S) : SameLetter(comm[off + j], S[j])
        /\ \A j \in 1..(off + Len(S)) : comm[j] # NUL
Elems(seq) == { seq[i] : i \in 1..Len(seq) }
C26_FiltersCommute ==
    IsSome(ff_out) /\ IsSome(ff_opts.filter_pid) /\ IsSome(ff_opts.filter_comm) =>
        /\ Elems(Unwrap(ff_out).pid_first) = Elems(Unwrap(ff_out).comm_first)
        /\ Elems(Unwrap(ff_out).pid_first) =
               { f \in Elems(ff_flows) :
                   /\ f.info.pid = Unwrap(ff_opts.filter_pid)
                   /\ NameContains(f.info.comm, Unwrap(ff_opts.filter_comm)) }
C26_Witness ==
    /\ IsSome(ff_out)
    /\ IsSome(ff_opts.filter_pid)
    /\ ff_opts.filter_comm = Some(<<"n", "g">>)
    /\ Len(ff_flows) = Len(FlowPool)
    /\ \E f \in Elems(Unwrap(ff_out).pid_first) : comm_to_string(f.info.comm) = <<"N", "g">>

\* C21: tc_ingress and tc_egress return TC_ACT_PIPE for every packet, also
\* when the counter slot lookup fails, when the ring reservation fails and
\* when the packet bytes cannot be read.
C21_AlwaysPipe == \A i \in 1..Len(tc_log) : tc_log[i].verdict = TC_ACT_PIPE
C21_Witness ==
    /\ \E i \in 1..Len(tc_log) :
         tc_log[i].len > LARGE_PACKET_THRESHOLD /\ ~tc_log[i].reserved /\ ~tc_log[i].slot_ok
    /\ \E i \in 1..Len(tc_log) : tc_log[i].reserved /\ ~tc_log[i].load_ok

\* C22: every DropEvent committed to DROP_EVENTS has reason > 1: kfree_skb
\* commits nothing when the reason it read is 0, 1 or could not be read.
C22_CommittedReasonAboveOne ==
    /\ \A i \in 1..Len(DROP_EVENTS) : DROP_EVENTS[i].reason > 1
    /\ \A i \in 1..Len(kfree_log) :
         IF IsSome(kfree_log[i].read) /\ Unwrap(kfree_log[i].read) > 1
         THEN IsSome(kfree_log[i].committed) => Unwrap(kfree_log[i].committed).reason > 1
         ELSE kfree_log[i].committed = None
C22_Witness ==
    /\ \E i \in 1..Len(kfree_log) : kfree_log[i].read = Some(1)
    /\ \E i \in 1..Len(kfree_log) : kfree_log[i].read = None
    /\ \E i \in 1..Len(DROP_EVENTS) : DROP_EVENTS[i].reason = 7

\* C23 (as stated): in the FLOW_EVENTS ring, every CLOSE event of a flow
\* (key, start_time_ns) comes after a NEW event of the same flow, and no CLOSE
\* is committed for a flow that had no NEW event.
IsType(e, name) == flow_event_type_str(e.event_type) = name
SameFlow(e, f) == e.key = f.key /\ e.start = f.start
C24_EndsAtFirstLimit ==
    [][(tr_pc \in {"check", "poll", "sleep"}
        /\ (event_count >= tr_filter.count \/ tr_elapsed > tr_filter.timeout_secs))
       => event_count' = event_count]_vars

\* C25 (as stated): every event that trace prints and counts matches the
\* filters of the caller (the protocol filter here; a DropEvent carries no
\* address to hold against --dst and --src).
MatchesFilter(printed, filter) ==
    IsSome(filter.protocol) => to_lowercase(printed.proto) = Unwrap(filter.protocol)
C25_PrintedMatchesFilter ==
    \A i \in 1..Len(tr_printed) : MatchesFilter(tr_printed[i], tr_filter)

\* C31: a caller of Updater::upgrade renames the temp file over the binary
\* only after its verify_checksum found the SHA-256 equal to the published
\* one; a caller whose upgrade returned an error made no replacement, and when
\* no other upgrade ran the file at binary_path is then the old binary; the
\* restart is triggered only after the caller's replacement.
Alone(p) == \A q \in Updaters \ {p} : up_pc[q] = "absent"
C31_ReplaceOnlyAfterVerify ==
    \A p \in Updaters :
        /\ up_replaced[p] => up_verified[p]
        /\ up_restarted[p] => up_replaced[p]
        /\ up_pc[p] = "done_err" => ~up_replaced[p] /\ ~up_restarted[p]
        /\ Alone(p) /\ up_pc[p] = "done_err" => fs_binary = 1 /\ inodes[1] = OldBinary
        /\ Alone(p) /\ up_replaced[p] => inodes[fs_binary] = Published
C31_Witness ==
    /\ Alone("agent")
    /\ up_pc["agent"] = "done_ok"
    /\ up_restarted["agent"]
    /\ fs_binary # 1

\* C36 (as stated): with two upgrades running at the same time, the file at
\* binary_path is always the old binary or a file whose SHA-256 is the
\* published checksum.
C36_BinaryAlwaysVerified ==
    inodes[fs_binary] \in { OldBinary, Published }

\* C32 (as stated): the current_version of every heartbeat is the build-time
\* version of the binary that sent it, for a new identity and for one loaded
\* from an existing state file.
C32_ReportsBuildVersion ==
    \A i \in 1..Len(rp_sent) : rp_sent[i].current_version = rp_sent[i].build

\* C33: handle_command runs only in the Ok arm of a heartbeat attempt, with
\* the response that attempt returned, and at most once per tick; a tick whose
\* attempt failed dispatches nothing, and the response of a tick is gone when
\* the next tick starts.
C33_DispatchOncePerTick ==
    [][/\ (act' # act /\ act' # NoAct) =>
            /\ hb_pc = "handle"
            /\ response.ok
            /\ last_result = "ok"
            /\ act = NoAct
            /\ act'.command = response.command
            /\ act'.latest_version = response.latest_version
            /\ ticks' = ticks
       /\ hb_pc = "failed" => act = NoAct /\ act' = NoAct
       /\ ticks' # ticks => response' = NoResponse /\ act' = NoAct]_vars
C33_Witness ==
    /\ ticks = MaxTicks
    /\ act.command = "CommandUpgrade"
    /\ hb_pc = "sleep"

\* C34 (as stated): the agent re-executes itself on an UPGRADE command only
\* when Updater::upgrade replaced the binary; an upgrade that found the running
\* version to be the latest leads to no exec.
C34_ExecOnlyAfterReplace ==
    /\ act.exec # "none" => act.replaced
    /\ hb_pc = "execed" => act.replaced

\* C35 (as stated): after an agent launch every pinned entry under
\* /sys/fs/bpf/sennet refers to the map of the probes attached by this launch,
\* also when an entry of that name was left by an earlier run.
C35_PinsReferToLiveMaps ==
    (ld_pc = "returned" /\ ld_caller = "agent" /\ handle.status = "ok")
        => \A name \in pins : PinnedMap(name) = "live"

\* C37: drop_count is 0 in every per-CPU slot of COUNTERS and in every metrics
\* snapshot, whatever the classifiers counted and however many DropEvents the
\* kfree_skb program committed.
C37_DropCountStaysZero ==
    /\ \A slot \in 1..2 : \A cpu \in CPUs : COUNTERS[slot][cpu].drop_count = 0
    /\ \A i \in 1..Len(snaps) : snaps[i].m.drop_count = 0
C37_Witness ==
    /\ DROP_EVENTS # <<>>
    /\ snaps # <<>>
    /\ snaps[Len(snaps)].m.rx_packets > 0
    /\ rd_pc = "idle"


\* ---------------------------------------------------------------------------
\* k8s.rs: the pod watcher of K8sManager::sync_loop and the container cache
\* ---------------------------------------------------------------------------
MaxPodEvents == 3

\* metadata.labels of the two pods, as (key, value) pairs
PodLabels(name) == { << "app", name >> }

\* The states a cluster's pods can be in: a container id belongs to one pod
PodStates ==
    { st \in [ PodNames -> { None } \cup { Some(ids) : ids \in SUBSET Cids } ] :
        \A p, q \in PodNames :
            (p # q /\ IsSome(st[p]) /\ IsSome(st[q])) => Unwrap(st[p]) \cap Unwrap(st[q]) = {} }

\* pod_to_info of a pod the API server returned (it carries spec, status and name)
pod_to_info(name, ids) ==
    Some([ name |-> name, namespace |-> "default", labels |-> PodLabels(name),
           container_ids |-> ids ])

\* for cid in &info.container_ids { cache.insert(cid.clone(), info.clone()); }
CacheInsert(cache, info) ==
    [ c \in Cids |-> IF c \in info.container_ids THEN Some(info) ELSE cache[c] ]

\* for cid in &info.container_ids { cache.remove(cid); }
CacheRemove(cache, info) ==
    [ c \in Cids |-> IF c \in info.container_ids THEN None ELSE cache[c] ]

RECURSIVE CacheInsertAll(_, _, _)
CacheInsertAll(cache, list, todo) ==
    IF todo = {} THEN cache
    ELSE LET p == CHOOSE q \in todo : TRUE
             info == pod_to_info(p, Unwrap(list[p]))
         IN  CacheInsertAll(CacheInsert(cache, Unwrap(info)), list, todo \ {p})

\* Ok(Event::Restarted(pods)): the initial list, and the list after a watcher restart
PodRestarted ==
    /\ sync_task = "watching"
    /\ pod_events < MaxPodEvents
    /\ \E list \in PodStates :
         /\ cl_pods' = list
         /\ container_cache' =
                CacheInsertAll(container_cache, list, { p \in PodNames : IsSome(list[p]) })
    /\ pod_listed' = TRUE
    /\ pod_events' = pod_events + 1
    /\ UNCHANGED << policyVars, diagVars, exceptK8s >>

\* Ok(Event::Applied(pod)): a pod was created or modified
PodApplied ==
    /\ sync_task = "watching"
    /\ pod_listed
    /\ pod_events < MaxPodEvents
    /\ \E p \in PodNames, ids \in SUBSET Cids :
         /\ [ cl_pods EXCEPT ![p] = Some(ids) ] \in PodStates
         /\ cl_pods' = [ cl_pods EXCEPT ![p] = Some(ids) ]
         /\ container_cache' = CacheInsert(container_cache, Unwrap(pod_to_info(p, ids)))
    /\ pod_events' = pod_events + 1
    /\ UNCHANGED << pod_listed, policyVars, diagVars, exceptK8s >>

\* Ok(Event::Deleted(pod)): the event carries the pod as it last was
PodDeleted ==
    /\ sync_task = "watching"
    /\ pod_listed
    /\ pod_events < MaxPodEvents
    /\ \E p \in PodNames :
         /\ IsSome(cl_pods[p])
         /\ cl_pods' = [ cl_pods EXCEPT ![p] = None ]
         /\ container_cache' =
                CacheRemove(container_cache, Unwrap(pod_to_info(p, Unwrap(cl_pods[p]))))
    /\ pod_events' = pod_events + 1
    /\ UNCHANGED << pod_listed, policyVars, diagVars, exceptK8s >>

\* get_pod_by_container
get_pod_by_container(container_id) == container_cache[container_id]

InitPods ==
    /\ BaseIdle
    /\ ConfigIdle /\ VersionsIdle /\ CryptoIdle /\ FilterIdle /\ TcIdle /\ DropIdle
    /\ FlowsIdle /\ TraceIdle
    /\ UpgradeIdle /\ ReportIdle
    /\ cl_pods \in PodStates
    /\ pod_listed = FALSE
    /\ pod_events = 0
    /\ container_cache = [ c \in Cids |-> None ]
    /\ cl_policies = [ k \in PolicyKeys |-> None ]
    /\ policy_listed = FALSE
    /\ policy_events = 0
    /\ policy_seen = [ k \in PolicyKeys |-> [ kind |-> "never", obj |-> None, applied |-> 0 ] ]
    /\ policy_index = <<>>
    /\ in_cluster = TRUE
    /\ sync_task = "watching"
    /\ dg_pc = "absent"
    /\ dg_args = << "frontend", "backend" >>
    /\ dg_status = None

NextPods ==
    \/ PodRestarted
    \/ PodApplied
    \/ PodDeleted

SpecPods == InitPods /\ [][NextPods]_vars

\* C38: after any sequence of pod watcher events the container cache maps a
\* container id to a pod only if that pod currently exists and currently has
\* that container id.
C38_CacheHoldsOnlyLivePods ==
    \A c \in Cids :
        LET hit == get_pod_by_container(c)
        IN  IsSome(hit) =>
                /\ IsSome(cl_pods[Unwrap(hit).name])
                /\ c \in Unwrap(cl_pods[Unwrap(hit).name])


\* ---------------------------------------------------------------------------
\* k8s.rs: the policy watcher of K8sManager::sync_loop and the policy index
\* ---------------------------------------------------------------------------
MaxPolicyEvents == 3

\* The NetworkPolicy specs the cluster's policies take: one that selects every
\* pod and allows no ingress, one that lets the frontend reach only the backend
DenyIngress ==
    [ pod_selector |-> {}, policy_types |-> {"Ingress"}, ingress |-> <<>>, egress |-> <<>> ]
EgressToBackend ==
    [ pod_selector |-> { << "app", "frontend" >> }, policy_types |-> {"Egress"},
      ingress |-> <<>>,
      egress |-> << [ from_pod_selector |-> Some({ << "app", "backend" >> }) ] >> ]
PolicySpecs == { DenyIngress, EgressToBackend }
PolicyLists == [ PolicyKeys -> { None } \cup { Some(o) : o \in PolicySpecs } ]

\* The order in which a list of the API server names the policies
KeyOrder == << << "default", "deny" >>, << "default", "egress" >>, << "prod", "deny" >> >>

\* policy_to_info of a policy the API server returned (it carries spec and name)
policy_to_info(key, obj) ==
    Some([ name |-> key[2], namespace |-> key[1], pod_selector |-> obj.pod_selector,
           policy_types |-> obj.policy_types, ingress_rules |-> obj.ingress,
           egress_rules |-> obj.egress ])

NsPolicies(index, namespace) ==
    IF namespace \in DOMAIN index THEN index[namespace] ELSE <<>>

\* The same without `ns_policies.retain(|p| p.name != info.name)`
IndexPolicyPushOnly(index, info) ==
    [ n \in DOMAIN index \cup { info.namespace } |->
        IF n = info.namespace THEN Append(NsPolicies(index, n), info) ELSE index[n] ]

\* index.entry(namespace).or_default(); retain the other names; push(info)
IndexPolicy(index, info) ==
    [ n \in DOMAIN index \cup { info.namespace } |->
        IF n = info.namespace
        THEN Append(SelectSeq(NsPolicies(index, n), LAMBDA p : p.name # info.name), info)
        ELSE index[n] ]

\* if let Some(ns_policies) = index.get_mut(namespace) { retain the other names }
UnindexPolicy(index, info) ==
    [ n \in DOMAIN index |->
        IF n = info.namespace
        THEN SelectSeq(index[n], LAMBDA p : p.name # info.name)
        ELSE index[n] ]

RECURSIVE IndexAll(_, _, _)
IndexAll(index, list, i) ==
    IF i > Len(KeyOrder) THEN index
    ELSE LET k == KeyOrder[i]
         IN  IF IsSome(list[k])
             THEN IndexAll(IndexPolicy(index, Unwrap(policy_to_info(k, Unwrap(list[k])))),
                           list, i + 1)
             ELSE IndexAll(index, list, i + 1)

SeenApplied(seen, obj) ==
    [ kind |-> "applied", obj |-> Some(obj), applied |-> seen.applied + 1 ]

\* Ok(Event::Restarted(policies)): the initial list, and the list after a watcher restart
PolicyRestarted ==
    /\ sync_task = "watching"
    /\ policy_events < MaxPolicyEvents
    /\ \E list \in PolicyLists :
         /\ cl_policies' = list
         /\ policy_index' = IndexAll(policy_index, list, 1)
         /\ policy_seen' = [ k \in PolicyKeys |->
                               IF IsSome(list[k])
                               THEN SeenApplied(policy_seen[k], Unwrap(list[k]))
                               ELSE policy_seen[k] ]
    /\ policy_listed' = TRUE
    /\ policy_events' = policy_events + 1
    /\ UNCHANGED << podVars, diagVars, exceptK8s >>

\* Ok(Event::Applied(policy)): a policy was created or modified
PolicyApplied ==
    /\ sync_task = "watching"
    /\ policy_listed
    /\ policy_events < MaxPolicyEvents
    /\ \E k \in PolicyKeys, obj \in PolicySpecs :
         /\ cl_policies' = [ cl_policies EXCEPT ![k] = Some(obj) ]
         /\ policy_index' = IndexPolicy(policy_index, Unwrap(policy_to_info(k, obj)))
         /\ policy_seen' = [ policy_seen EXCEPT ![k] = SeenApplied(@, obj) ]
    /\ policy_events' = policy_events + 1
    /\ UNCHANGED << policy_listed, podVars, diagVars, exceptK8s >>

\* Ok(Event::Deleted(policy)): the event carries the policy as it last was
PolicyDeleted ==
    /\ sync_task = "watching"
    /\ policy_listed
    /\ policy_events < MaxPolicyEvents
    /\ \E k \in PolicyKeys :
         /\ IsSome(cl_policies[k])
         /\ cl_policies' = [ cl_policies EXCEPT ![k] = None ]
         /\ policy_index' =
                UnindexPolicy(policy_index, Unwrap(policy_to_info(k, Unwrap(cl_policies[k]))))
         /\ policy_seen' = [ policy_seen EXCEPT ![k] =
                               [ kind |-> "deleted", obj |-> None, applied |-> @.applied ] ]
    /\ policy_events' = policy_events + 1
    /\ UNCHANGED << policy_listed, podVars, diagVars, exceptK8s >>

InitPolicies ==
    /\ BaseIdle
    /\ ConfigIdle /\ VersionsIdle /\ CryptoIdle /\ FilterIdle /\ TcIdle /\ DropIdle
    /\ FlowsIdle /\ TraceIdle
    /\ UpgradeIdle /\ ReportIdle
    /\ cl_pods = [ p \in PodNames |-> None ]
    /\ pod_listed = FALSE
    /\ pod_events = 0
    /\ container_cache = [ c \in Cids |-> None ]
    /\ cl_policies \in PolicyLists
    /\ policy_listed = FALSE
    /\ policy_events = 0
    /\ policy_seen = [ k \in PolicyKeys |-> [ kind |-> "never", obj |-> None, applied |-> 0 ] ]
    /\ policy_index = <<>>
    /\ in_cluster = TRUE
    /\ sync_task = "watching"
    /\ dg_pc = "absent"
    /\ dg_args = << "frontend", "backend" >>
    /\ dg_status = None

NextPolicies ==
    \/ PolicyRestarted
    \/ PolicyApplied
    \/ PolicyDeleted

SpecPolicies == InitPolicies /\ [][NextPolicies]_vars

\* The entries the index holds for one (namespace, policy name)
EntriesOf(k) == SelectSeq(NsPolicies(policy_index, k[1]), LAMBDA p : p.name = k[2])

\* C39: after any sequence of policy watcher events the index holds at most one
\* entry per (namespace, policy name), that entry is the version the most recent
\* Applied event or list carried, and a policy whose Deleted event was processed
\* since has no entry.
C39_OneLatestEntryPerPolicy ==
    \A k \in PolicyKeys :
        /\ Len(EntriesOf(k)) <= 1
        /\ Len(EntriesOf(k)) = 1 =>
              /\ policy_seen[k].kind = "applied"
              /\ EntriesOf(k)[1] = Unwrap(policy_to_info(k, Unwrap(policy_seen[k].obj)))
        /\ policy_seen[k].kind = "deleted" => Len(EntriesOf(k)) = 0

\* A policy applied a second time has its one entry while another policy of the
\* same namespace was deleted
C39_Witness ==
    \E k1, k2 \in PolicyKeys :
        /\ k1 # k2 /\ k1[1] = k2[1]
        /\ policy_seen[k1].applied >= 2
        /\ Len(EntriesOf(k1)) = 1
        /\ policy_seen[k2].kind = "deleted"
        /\ policy_seen[k2].applied >= 1


\* ---------------------------------------------------------------------------
\* main.rs run_diagnose and k8s.rs diagnose_connectivity
\* ---------------------------------------------------------------------------

\* labels_match: an empty selector matches everything, otherwise every selector
\* label must be present with the same value
labels_match(selector, labels) ==
    \/ selector = {}
    \/ \A kv \in selector : kv \in labels

get_policies_for_pod(index, namespace, labels) ==
    SelectSeq(NsPolicies(index, namespace), LAMBDA p : labels_match(p.pod_selector, labels))

\* pods.get(name).await.ok().as_ref().and_then(Self::pod_to_info)
PodGet(name) ==
    IF IsSome(cl_pods[name]) THEN pod_to_info(name, Unwrap(cl_pods[name])) ELSE None

RuleAllows(rules, labels) ==
    \E j \in 1..Len(rules) :
        IF IsSome(rules[j].from_pod_selector)
        THEN labels_match(Unwrap(rules[j].from_pod_selector), labels)
        ELSE TRUE

\* The connectivity_status diagnose_connectivity computes from the index
ConnectivityStatus(index, source_info, target_info) ==
    IF ~(IsSome(source_info) /\ IsSome(target_info)) THEN "Unknown"
    ELSE
    LET src == Unwrap(source_info)
        tgt == Unwrap(target_info)
        src_policies == get_policies_for_pod(index, src.namespace, src.labels)
        tgt_policies == get_policies_for_pod(index, tgt.namespace, tgt.labels)
        has_egress_policy ==
            \E i \in 1..Len(src_policies) : "Egress" \in src_policies[i].policy_types
        has_ingress_policy ==
            \E i \in 1..Len(tgt_policies) : "Ingress" \in tgt_policies[i].policy_types
        allows_egress ==
            \E i \in 1..Len(src_policies) : RuleAllows(src_policies[i].egress_rules, tgt.labels)
        allows_ingress ==
            \E i \in 1..Len(tgt_policies) : RuleAllows(tgt_policies[i].ingress_rules, src.labels)
        egress_blocking ==
            IF has_egress_policy /\ ~allows_egress /\ src_policies # <<>>
            THEN SelectSeq(src_policies, LAMBDA p : "Egress" \in p.policy_types)
            ELSE <<>>
        ingress_blocking ==
            IF has_ingress_policy /\ ~allows_ingress /\ tgt_policies # <<>>
            THEN SelectSeq(tgt_policies, LAMBDA p : "Ingress" \in p.policy_types)
            ELSE <<>>
        blocking_policies == egress_blocking \o ingress_blocking
    IN  IF blocking_policies = <<>> THEN "Allowed" ELSE "Blocked"

\* K8sManager::new: in_cluster is set when a service account token or a kubeconfig is found
DgNew ==
    /\ dg_pc = "new"
    /\ in_cluster' \in BOOLEAN
    /\ dg_pc' = "sync"
    /\ UNCHANGED << sync_task, dg_args, dg_status, podVars, policyVars, exceptK8s >>

\* start_sync: returns at once without Kubernetes access, else spawns sync_loop and returns
StartSync ==
    /\ dg_pc = "sync"
    /\ sync_task' = IF in_cluster THEN "spawned" ELSE "none"
    /\ dg_pc' = "sleep"
    /\ UNCHANGED << in_cluster, dg_args, dg_status, podVars, policyVars, exceptK8s >>

\* sync_loop up to the two watchers: Client::try_default, or its error
SyncConnect ==
    /\ sync_task = "spawned"
    /\ sync_task' \in { "watching", "failed" }
    /\ UNCHANGED << in_cluster, dg_pc, dg_args, dg_status, podVars, policyVars, exceptK8s >>

\* tokio::time::sleep(Duration::from_millis(500)).await
DgSleep ==
    /\ dg_pc = "sleep"
    /\ dg_pc' = "diagnose"
    /\ UNCHANGED << in_cluster, sync_task, dg_args, dg_status, podVars, policyVars, exceptK8s >>

\* diagnose_connectivity and the match on its result
DiagnoseConnectivity ==
    /\ dg_pc = "diagnose"
    /\ \E client_ok \in (IF in_cluster THEN BOOLEAN ELSE { FALSE }) :
         dg_status' =
            IF client_ok
            THEN Some(ConnectivityStatus(policy_index, PodGet(dg_args[1]), PodGet(dg_args[2])))
            ELSE Some("Error")
    /\ dg_pc' = "done"
    /\ UNCHANGED << in_cluster, sync_task, dg_args, podVars, policyVars, exceptK8s >>

\* The pods of the cluster `sennet diagnose` is run against
DiagPods ==
    { [ p \in PodNames |-> IF p = "frontend" THEN Some({"c1"}) ELSE Some({"c2"}) ],
      [ p \in PodNames |-> IF p = "frontend" THEN Some({"c1"}) ELSE None ] }

InitDiagnose ==
    /\ BaseIdle
    /\ ConfigIdle /\ VersionsIdle /\ CryptoIdle /\ FilterIdle /\ TcIdle /\ DropIdle
    /\ FlowsIdle /\ TraceIdle
    /\ UpgradeIdle /\ ReportIdle
    /\ cl_pods \in DiagPods
    /\ pod_listed = FALSE
    /\ pod_events = 0
    /\ container_cache = [ c \in Cids |-> None ]
    /\ cl_policies \in PolicyLists
    /\ policy_listed = FALSE
    /\ policy_events = 0
    /\ policy_seen = [ k \in PolicyKeys |-> [ kind |-> "never", obj |-> None, applied |-> 0 ] ]
    /\ policy_index = <<>>
    /\ in_cluster = FALSE
    /\ sync_task = "none"
    /\ dg_pc = "new"
    /\ dg_args \in { << "frontend", "backend" >>, << "backend", "frontend" >> }
    /\ dg_status = None

NextDiagnose ==
    \/ DgNew
    \/ StartSync
    \/ SyncConnect
    \/ DgSleep
    \/ DiagnoseConnectivity
    \/ PolicyRestarted
    \/ PolicyApplied
    \/ PolicyDeleted

SpecDiagnose == InitDiagnose /\ [][NextDiagnose]_vars

\* A policy of the cluster selects the source or the target pod
SelectingPolicyExists ==
    \E k \in PolicyKeys, i \in 1..2 :
        /\ IsSome(cl_policies[k])
        /\ IsSome(PodGet(dg_args[i]))
        /\ k[1] = Unwrap(PodGet(dg_args[i])).namespace
        /\ labels_match(Unwrap(cl_policies[k]).pod_selector, Unwrap(PodGet(dg_args[i])).labels)

\* C40: diagnose evaluates the policies only after the index holds the
\* watcher's initial list: no step of diagnose_connectivity reports Allowed
\* from an index that is still empty while a policy of the cluster selects the
\* pods and, once listed, gives Blocked.
C40_NoAllowedFromEmptyIndex ==
    [][ (dg_pc = "diagnose" /\ dg_pc' = "done") =>
            ~ ( /\ dg_status' = Some("Allowed")
                /\ ~policy_listed
                /\ DOMAIN policy_index = {}
                /\ SelectingPolicyExists
                /\ ConnectivityStatus(IndexAll(policy_index, cl_policies, 1),
                                      PodGet(dg_args[1]), PodGet(dg_args[2])) = "Blocked" ) ]_vars

====
